---- MODULE Spec2Model ----
(***************************************************************************)
(* State-machine model of the test doubles and the provider configuration  *)
(* of terraform-provider-netactuate:                                       *)
(*   - FakeClient  (netactuate/testing_fake.go): in-memory backend,        *)
(*   - MockClient  (netactuate/testing_mock.go): per-operation hooks,      *)
(*   - providerConfigure / FrameworkProvider.Configure.                    *)
(*                                                                         *)
(* A FakeClient interface operation runs in three steps, as in the code:   *)
(*   1. trackCall: lock, append to the call log, unlock        (Invoke)    *)
(*   2. the read of the operation's injected-error field,                  *)
(*      made without the mutex                                 (CheckError)*)
(*   3. the body, made while the mutex is held                 (one action *)
(*      per operation, named after it)                                     *)
(* A critical section is one atomic step; two callers interleave between   *)
(* the steps.                                                              *)
(***************************************************************************)
EXTENDS Integers, Sequences, FiniteSets, TLC

\* ------------------------------------------------------------------ bounds

\* Number of environment steps (interface calls, helper calls, assignments
\* to an injected-error field) of one behaviour.
MaxSteps == 4

\* Longest hostname given to the hostname pattern.
MaxHostnameLen == 4

\* The two concurrent callers.
Threads == {"t1", "t2"}

\* --------------------------------------------------------- program constants

FirstServerID == 1000
FirstSSHKeyID == 100
FirstBGPSessionID == 500
ProviderAsn == 64512
CustomerAsn == 65000

Nil == "<nil>"

\* ------------------------------------------------------------- text helpers

HexDigits == <<"0", "1", "2", "3", "4", "5", "6", "7", "8", "9", "a", "b", "c", "d", "e", "f">>

\* fmt's %d and %x of a non-negative int
RECURSIVE FmtBase(_, _)
FmtBase(n, base) ==
    IF n < base THEN HexDigits[n + 1]
    ELSE FmtBase(n \div base, base) \o HexDigits[(n % base) + 1]

FmtD(n) == FmtBase(n, 10)

FmtX(n) == FmtBase(n, 16)

FmtBool(b) == IF b THEN "true" ELSE "false"

\* ------------------------------------------------------------ map helpers

Has(m, k) == k \in DOMAIN m

Put(m, k, v) == [i \in (DOMAIN m) \cup {k} |-> IF i = k THEN v ELSE m[i]]

\* Faulty variant of Del: nothing is removed.
Del_Noop(m, k) == m

\* delete(m, k)
Del(m, k) == [i \in (DOMAIN m) \ {k} |-> m[i]]

EmptyMap == <<>>

Min(S) == CHOOSE x \in S : \A y \in S : x <= y

\* ------------------------------------------------------------- gona values

ZeroServer ==
    [ID |-> 0, Name |-> "", OS |-> "", OSID |-> 0, Location |-> "", LocationID |-> 0,
     PlanID |-> 0, Package |-> "", PackageBilling |-> "", PackageBillingContractId |-> "",
     ServerStatus |-> "", PowerStatus |-> "", Installed |-> 0,
     PrimaryIPv4 |-> "", PrimaryIPv6 |-> ""]

ZeroServerBuild == [ServerID |-> 0, Status |-> "", Build |-> 0]

ZeroSSHKey == [ID |-> 0, Name |-> "", Key |-> "", Fingerprint |-> ""]

ZeroIPs == [IPv4 |-> <<>>, IPv6 |-> <<>>]

DefaultLocations ==
    << [ID |-> 1, Name |-> "AMS Amsterdam", IATACode |-> "AMS", Continent |-> "EU"],
       [ID |-> 2, Name |-> "LAX Los Angeles", IATACode |-> "LAX", Continent |-> "NA"],
       [ID |-> 3, Name |-> "SJC San Jose", IATACode |-> "SJC", Continent |-> "NA"] >>

DefaultOSes ==
    << [ID |-> 1, Os |-> "Ubuntu 22.04 LTS", Type |-> "linux", Bits |-> "64"],
       [ID |-> 2, Os |-> "Debian 12", Type |-> "linux", Bits |-> "64"],
       [ID |-> 3, Os |-> "Rocky Linux 9", Type |-> "linux", Bits |-> "64"] >>

\* ------------------------------------------------------------------ inputs

\* Ids the callers pass: the first two ids of each class (an id is absent
\* until it is created or seeded).
ServerIds == {FirstServerID, FirstServerID + 1}

SSHKeyIds == {FirstSSHKeyID, FirstSSHKeyID + 1}

\* Build / create requests: one that matches the reference lists and one
\* whose Image and Location match no reference entry.
Requests ==
    { [FQDN |-> "test.example.com", Image |-> 1, Location |-> 1, Plan |-> "VR1x1x25",
       PackageBilling |-> "usage", PackageBillingContractId |-> ""],
      [FQDN |-> "other.example.com", Image |-> 9, Location |-> 9, Plan |-> "VR2x2x50",
       PackageBilling |-> "contract", PackageBillingContractId |-> "c-1"] }

\* Records a test seeds with AddServer: a running and a terminated one, on
\* the id the first CreateServer will use.
SeedServers ==
    { [ZeroServer EXCEPT !.ID = FirstServerID, !.Name = "custom.example.com",
                         !.ServerStatus = "RUNNING"],
      [ZeroServer EXCEPT !.ID = FirstServerID, !.Name = "custom.example.com",
                         !.ServerStatus = "TERMINATED"] }

\* The error value a test injects (errors.New("test error")).
InjectedErrors == {"test error"}

Operations ==
    {"CreateServer", "GetServer", "BuildServer", "DeleteServer", "UnlinkServer",
     "CreateSSHKey", "GetSSHKey", "DeleteSSHKey", "CreateBGPSessions", "GetBGPSessions",
     "GetIPs", "GetLocations", "GetOSs"}

\* ------------------------------------------------------------------- state

VARIABLES
    servers,            \* FakeClient.servers: id -> gona.Server
    sshKeys,            \* FakeClient.sshKeys: id -> gona.SSHKey
    bgpSessions,        \* FakeClient.bgpSessions: server id -> list of sessions
    ips,                \* FakeClient.ips: server id -> gona.IPs
    locations,          \* FakeClient.locations
    oses,               \* FakeClient.oses
    nextServerID,
    nextSSHKeyID,
    nextBGPSessionID,
    opError,            \* the thirteen <Operation>Error fields
    calls,              \* FakeClient.calls
    mu,                 \* FakeClient.mu: the caller that holds it, or Nil
    pc,                 \* per caller: "idle", "track" (in trackCall), "check" (after
                        \* it), "fail", "lock" (at f.mu.Lock()), "body" (past it)
    cur,                \* per caller: the operation in progress and its arguments
    ret,                \* per caller: what its last finished operation returned
    snapshot,           \* the slice the last GetCalls handed to the test
    issued,             \* history: ids returned by the create operations, per class,
                        \* and (created) the sessions CreateBGPSessions returned
    last,               \* history: the last step that acted on the backend
    fuel,               \* environment steps left
    scenario,           \* which family of test drivers this behaviour belongs to
    mockFuncs,          \* MockClient: the thirteen <Operation>Func fields
    mockCalls,          \* MockClient.calls
    hookCalls,          \* history: the hook invocations, with their arguments
    config,             \* provider configuration block: api_key, api_url
    environ,            \* value of NETACTUATE_API_KEY ("" when unset)
    configured,         \* what the two Configure paths produced
    hostname,           \* the text given to the hostname pattern
    validated           \* what the pattern, and the pattern with "^", said of it

stores == <<servers, sshKeys, bgpSessions, ips, locations, oses>>

counters == <<nextServerID, nextSSHKeyID, nextBGPSessionID>>

vars == <<servers, sshKeys, bgpSessions, ips, locations, oses, nextServerID, nextSSHKeyID,
          nextBGPSessionID, opError, calls, mu, pc, cur, ret, snapshot, issued, last, fuel,
          scenario, mockFuncs, mockCalls, hookCalls, config, environ, configured,
          hostname, validated>>

mockVars == <<mockFuncs, mockCalls, hookCalls>>

providerVars == <<config, environ, configured, hostname, validated>>

\* What no FakeClient step touches.
env == <<fuel, scenario, mockVars, providerVars>>

NoCall == [op |-> "none", a |-> <<>>]

NoReturn == [op |-> "none", a |-> <<>>, err |-> Nil, val |-> <<>>]

\* ---------------------------------------------------------------- scenarios

\* A behaviour is one test: it drives a client with the calls of one
\* scenario. <<kind, op>>: op names the operation an "inject" scenario
\* injects an error into or a "mock" scenario calls on the MockClient, and
\* is "-" otherwise.
Scenarios ==
    {<<k, "-">> : k \in {"servers", "rebuild", "sshkeys", "bgp", "ips", "metadata",
                         "concurrent"}}
        \cup {<<"inject", op>> : op \in Operations}
        \cup {<<"mock", op>> : op \in Operations}

S0 == FirstServerID

S1 == FirstServerID + 1

K0 == FirstSSHKeyID

K1 == FirstSSHKeyID + 1

KnownRequest == CHOOSE r \in Requests : r.Image = 1

UnknownRequest == CHOOSE r \in Requests : r.Image = 9

\* Every argument tuple of an operation that some scenario passes.
ArgsOf(op) ==
    CASE op = "CreateServer" -> {<<r>> : r \in Requests}
      [] op \in {"GetServer", "UnlinkServer", "GetBGPSessions", "GetIPs"} ->
            {<<id>> : id \in ServerIds}
      [] op = "BuildServer" -> {<<id, r>> : id \in ServerIds, r \in Requests}
      [] op = "DeleteServer" -> {<<id, cb>> : id \in ServerIds, cb \in BOOLEAN}
      [] op = "CreateSSHKey" -> {<<"test-key", "ssh-rsa AAA...">>}
      [] op \in {"GetSSHKey", "DeleteSSHKey"} -> {<<id>> : id \in SSHKeyIds}
      [] op = "CreateBGPSessions" ->
            {<<id, 1, v6, red>> : id \in ServerIds, v6 \in BOOLEAN, red \in BOOLEAN}
      [] op \in {"GetLocations", "GetOSs"} -> {<<>>}

\* The calls of each scenario.
ServersArgs(op) ==
    CASE op = "CreateServer" -> {<<KnownRequest>>}
      [] op = "GetServer" -> {<<S0>>, <<S1>>}
      [] op = "DeleteServer" -> {<<S0, TRUE>>, <<S0, FALSE>>, <<S1, TRUE>>}
      [] op = "UnlinkServer" -> {<<S0>>, <<S1>>}
      [] OTHER -> {}

RebuildArgs(op) ==
    CASE op = "CreateServer" -> ArgsOf(op)
      [] op = "BuildServer" ->
            {<<S0, KnownRequest>>, <<S0, UnknownRequest>>, <<S1, KnownRequest>>}
      [] op = "GetServer" -> {<<S0>>}
      [] op = "DeleteServer" -> {<<S0, TRUE>>}
      [] OTHER -> {}

SSHKeysArgs(op) ==
    CASE op \in {"CreateSSHKey", "GetSSHKey", "DeleteSSHKey"} -> ArgsOf(op)
      [] op = "CreateServer" -> {<<KnownRequest>>}
      [] op = "UnlinkServer" -> {<<S0>>}
      [] OTHER -> {}

BGPArgs(op) ==
    CASE op = "CreateBGPSessions" ->
            {<<S0, 1, v6, red>> : v6 \in BOOLEAN, red \in BOOLEAN} \cup {<<S1, 2, FALSE, FALSE>>}
      [] op = "GetBGPSessions" -> ArgsOf(op)
      [] op = "CreateServer" -> {<<KnownRequest>>}
      [] op = "DeleteServer" -> {<<S0, TRUE>>}
      [] op = "UnlinkServer" -> {<<S0>>}
      [] OTHER -> {}

IPsArgs(op) ==
    CASE op = "GetIPs" -> ArgsOf(op)
      [] op = "CreateServer" -> {<<KnownRequest>>}
      [] op = "BuildServer" -> {<<S0, UnknownRequest>>}
      [] op = "DeleteServer" -> {<<S0, TRUE>>}
      [] op = "UnlinkServer" -> {<<S0>>}
      [] OTHER -> {}

MetadataArgs(op) ==
    CASE op \in {"GetLocations", "GetOSs", "CreateSSHKey"} -> ArgsOf(op)
      [] op = "GetServer" -> {<<S0>>}
      [] OTHER -> {}

ConcurrentArgs(op) ==
    CASE op = "CreateServer" -> {<<KnownRequest>>}
      [] op = "GetServer" -> {<<S0>>}
      [] op = "DeleteServer" -> {<<S0, TRUE>>}
      [] op = "UnlinkServer" -> {<<S0>>}
      [] OTHER -> {}

\* An "inject" scenario calls the one operation it injects into, on the
\* first id of its class.
InjectArgs(target, op) ==
    IF op # target THEN {}
    ELSE IF op \in {"CreateServer", "CreateSSHKey", "GetLocations", "GetOSs"} THEN ArgsOf(op)
    ELSE {a \in ArgsOf(op) : a[1] \in {S0, K0}}

ScenarioArgs(sc, op) ==
    CASE sc[1] = "servers" -> ServersArgs(op)
      [] sc[1] = "rebuild" -> RebuildArgs(op)
      [] sc[1] = "sshkeys" -> SSHKeysArgs(op)
      [] sc[1] = "bgp" -> BGPArgs(op)
      [] sc[1] = "ips" -> IPsArgs(op)
      [] sc[1] = "metadata" -> MetadataArgs(op)
      [] sc[1] = "concurrent" -> ConcurrentArgs(op)
      [] sc[1] = "inject" -> InjectArgs(sc[2], op)
      [] OTHER -> {}

\* The helper that seeds the store an operation works on.
SeedHelperOf(op) ==
    CASE op \in {"CreateServer", "GetServer", "BuildServer", "DeleteServer", "UnlinkServer"} ->
            {"AddServer"}
      [] op \in {"CreateSSHKey", "GetSSHKey", "DeleteSSHKey"} -> {"AddSSHKey"}
      [] op \in {"CreateBGPSessions", "GetBGPSessions"} -> {"AddBGPSession"}
      [] op = "GetIPs" -> {"SetIPs"}
      [] op = "GetLocations" -> {"AddLocation"}
      [] op = "GetOSs" -> {"AddOS"}

\* The helper methods of each scenario.
ScenarioHelpers(sc) ==
    CASE sc[1] = "servers" -> {"AddServer"}
      [] sc[1] = "rebuild" -> {"AddOS", "AddLocation"}
      [] sc[1] = "sshkeys" -> {"AddSSHKey"}
      [] sc[1] = "bgp" -> {"AddBGPSession"}
      [] sc[1] = "ips" -> {"SetIPs", "AddServer"}
      [] sc[1] = "metadata" -> {"AddLocation", "AddOS", "GetCalls", "ResetCalls"}
      [] sc[1] = "concurrent" -> {"AddServer", "GetCalls"}
      [] sc[1] = "inject" -> SeedHelperOf(sc[2]) \cup {"GetCalls"}
      [] OTHER -> {}

\* The operations whose error field the scenario assigns.
ScenarioInjects(sc) ==
    CASE sc[1] = "inject" -> {sc[2]}
      [] sc[1] = "concurrent" -> {"GetServer"}
      [] OTHER -> {}

\* Callers of the scenario: one, or two concurrent ones.
Callers(sc) == IF sc[1] = "concurrent" THEN Threads ELSE {"t1"}

\* All callers are between operations.
Quiet == \A t \in Threads : pc[t] = "idle"

\* A single-threaded test calls helpers and assigns error fields only
\* between operations; in the concurrent scenario another goroutine may do
\* so at any time.
EnvReady == scenario[1] = "concurrent" \/ Quiet

\* NewFakeClient, and callers that have not called yet
FakeInit ==
    /\ servers = EmptyMap
    /\ sshKeys = EmptyMap
    /\ bgpSessions = EmptyMap
    /\ ips = EmptyMap
    /\ locations = DefaultLocations
    /\ oses = DefaultOSes
    /\ nextServerID = FirstServerID
    /\ nextSSHKeyID = FirstSSHKeyID
    /\ nextBGPSessionID = FirstBGPSessionID
    /\ opError = [o \in Operations |-> Nil]
    /\ calls = <<>>
    /\ mu = Nil
    /\ pc = [t \in Threads |-> "idle"]
    /\ cur = [t \in Threads |-> NoCall]
    /\ ret = [t \in Threads |-> NoReturn]
    /\ snapshot = <<>>
    /\ issued = [server |-> <<>>, sshKey |-> <<>>, bgpSession |-> <<>>, created |-> <<>>]
    /\ last = NoReturn
    /\ fuel = MaxSteps

\* ------------------------------------------------------- call log (trackCall)

\* The text each operation hands to trackCall.
CallEntry(op, a) ==
    CASE op = "CreateServer" -> "CreateServer"
      [] op = "GetServer" -> "GetServer(" \o FmtD(a[1]) \o ")"
      [] op = "BuildServer" -> "BuildServer(" \o FmtD(a[1]) \o ")"
      [] op = "DeleteServer" ->
            "DeleteServer(" \o FmtD(a[1]) \o ", " \o FmtBool(a[2]) \o ")"
      [] op = "UnlinkServer" -> "UnlinkServer(" \o FmtD(a[1]) \o ")"
      [] op = "CreateSSHKey" -> "CreateSSHKey(" \o a[1] \o ")"
      [] op = "GetSSHKey" -> "GetSSHKey(" \o FmtD(a[1]) \o ")"
      [] op = "DeleteSSHKey" -> "DeleteSSHKey(" \o FmtD(a[1]) \o ")"
      [] op = "CreateBGPSessions" ->
            "CreateBGPSessions(" \o FmtD(a[1]) \o ", " \o FmtD(a[2]) \o ", "
                \o FmtBool(a[3]) \o ", " \o FmtBool(a[4]) \o ")"
      [] op = "GetBGPSessions" -> "GetBGPSessions(" \o FmtD(a[1]) \o ")"
      [] op = "GetIPs" -> "GetIPs(" \o FmtD(a[1]) \o ")"
      [] op = "GetLocations" -> "GetLocations"
      [] op = "GetOSs" -> "GetOSs"

\* Faulty variant of TrackCall: nothing is recorded.
TrackCall_Skip(log, call) == log

\* FakeClient.trackCall: f.calls = append(f.calls, call)
TrackCall(log, call) == Append(log, call)

\* The zero value an operation returns beside an error.
ZeroResult(op) ==
    CASE op \in {"CreateServer", "BuildServer"} -> ZeroServerBuild
      [] op = "GetServer" -> ZeroServer
      [] op \in {"DeleteServer", "UnlinkServer", "DeleteSSHKey"} -> "void"
      [] op \in {"CreateSSHKey", "GetSSHKey"} -> ZeroSSHKey
      [] op \in {"CreateBGPSessions", "GetBGPSessions", "GetLocations", "GetOSs"} -> "nil"
      [] op = "GetIPs" -> ZeroIPs

\* A caller enters an interface operation; its first statement is
\* f.trackCall(...). The second caller is used only while the first is busy
\* (the two callers are interchangeable).
Invoke(t, op, a) ==
    /\ fuel > 0
    /\ t \in Callers(scenario)
    /\ pc[t] = "idle"
    /\ t = "t1" \/ pc["t1"] # "idle"
    /\ pc' = [pc EXCEPT ![t] = "track"]
    /\ cur' = [cur EXCEPT ![t] = [op |-> op, a |-> a]]
    /\ fuel' = fuel - 1
    /\ UNCHANGED <<scenario, mockVars, providerVars>>
    /\ UNCHANGED <<stores, counters, opError, calls, ret, mu, snapshot, issued, last>>

\* FakeClient.trackCall: "f.mu.Lock(); defer f.mu.Unlock();
\* f.calls = append(f.calls, call)". The caller waits while the mutex is
\* held; the critical section is one step, and the mutex is free after it.
trackCall(t) ==
    /\ pc[t] = "track"
    /\ mu = Nil
    /\ calls' = TrackCall(calls, CallEntry(cur[t].op, cur[t].a))
    /\ pc' = [pc EXCEPT ![t] = "check"]
    /\ UNCHANGED <<cur, ret, mu, last>>
    /\ UNCHANGED <<stores, counters, opError, snapshot, issued, env>>

\* Faulty variant of Return: the mutex is not released.
Return_HoldsLock(t, val, err) ==
    LET r == [op |-> cur[t].op, a |-> cur[t].a, val |-> val, err |-> err] IN
    /\ pc' = [pc EXCEPT ![t] = "idle"]
    /\ cur' = [cur EXCEPT ![t] = NoCall]
    /\ ret' = [ret EXCEPT ![t] = r]
    /\ last' = r
    /\ mu' = mu

\* What an operation hands back to its caller; "defer f.mu.Unlock()" runs if
\* the caller had got to f.mu.Lock().
Return(t, val, err) ==
    LET r == [op |-> cur[t].op, a |-> cur[t].a, val |-> val, err |-> err] IN
    /\ pc' = [pc EXCEPT ![t] = "idle"]
    /\ cur' = [cur EXCEPT ![t] = NoCall]
    /\ ret' = [ret EXCEPT ![t] = r]
    /\ last' = r
    /\ mu' = IF mu = t THEN Nil ELSE mu

\* Faulty variant of CheckError: the error field is not looked at.
CheckError_Ignore(t) ==
    /\ pc[t] = "check"
    /\ pc' = [pc EXCEPT ![t] = "lock"]
    /\ UNCHANGED <<cur, ret, mu, last>>
    /\ UNCHANGED <<stores, counters, opError, calls, snapshot, issued, env>>

\* "if f.<Operation>Error != nil {": the field is read without the mutex.
CheckError(t) ==
    /\ pc[t] = "check"
    /\ pc' = [pc EXCEPT ![t] = IF opError[cur[t].op] # Nil THEN "fail" ELSE "lock"]
    /\ UNCHANGED <<cur, ret, mu, last>>
    /\ UNCHANGED <<stores, counters, opError, calls, snapshot, issued, env>>

\* "return <zero>, f.<Operation>Error }": the field is read again, still
\* without the mutex; what is returned is what it holds now.
ReturnError(t) ==
    /\ pc[t] = "fail"
    /\ Return(t, ZeroResult(cur[t].op), opError[cur[t].op])
    /\ UNCHANGED <<stores, counters, opError, calls, snapshot, issued, env>>

\* A test assigns an <Operation>Error field (nil clears it).
SetError(op, e) ==
    /\ fuel > 0
    /\ EnvReady
    /\ opError[op] # e
    /\ opError' = [opError EXCEPT ![op] = e]
    /\ fuel' = fuel - 1
    /\ UNCHANGED <<scenario, mockVars, providerVars>>
    /\ UNCHANGED <<stores, counters, calls, pc, cur, ret, mu, snapshot, issued, last>>

\* "f.mu.Lock()" of an operation's body: the caller waits while the mutex is
\* held, by another caller or by itself.
Lock(t) ==
    /\ pc[t] = "lock"
    /\ mu = Nil
    /\ mu' = t
    /\ pc' = [pc EXCEPT ![t] = "body"]
    /\ UNCHANGED <<cur, ret, last>>
    /\ UNCHANGED <<stores, counters, opError, calls, snapshot, issued, env>>

InBody(t, op) == pc[t] = "body" /\ cur[t].op = op

\* The steps caller t takes with f.mu held: trackCall, f.mu.Lock() itself,
\* and the body that follows "f.mu.Lock(); defer f.mu.Unlock()".
HoldsMutex(t) ==
    \/ pc[t] = "track" /\ pc'[t] = "check"
    \/ pc[t] = "lock" /\ pc'[t] = "body" /\ mu' = t
    \/ pc[t] = "body" /\ pc'[t] = "idle" /\ mu = t

\* ------------------------------------------------------- server operations

\* "for _, os := range f.oses { if os.ID == r.Image { server.OS = os.Os; break } }":
\* the name of the first entry with that ID, else the name the record had.
LookupOS(list, id, was) ==
    LET hit == {i \in 1..Len(list) : list[i].ID = id} IN
    IF hit = {} THEN was ELSE list[Min(hit)].Os

\* "for _, loc := range f.locations { if loc.ID == r.Location { ... } }"
LookupLocation(list, id, was) ==
    LET hit == {i \in 1..Len(list) : list[i].ID = id} IN
    IF hit = {} THEN was ELSE list[Min(hit)].Name

ServerNotFound(id) == "server " \o FmtD(id) \o " not found"

\* Faulty variants of NextID: the counter is left where it was; the counter runs down.
NextID_Stuck(n) == n

NextID_Down(n) == n - 1

\* f.nextServerID++ (and the two other counters)
NextID(n) == n + 1

\* Faulty variant of NewServer: the names are those of the first reference entries.
NewServer_FirstNames(serverID, r, osList, locList) ==
    [ID |-> serverID,
     Name |-> r.FQDN,
     OS |-> osList[1].Os,
     OSID |-> r.Image,
     Location |-> locList[1].Name,
     LocationID |-> r.Location,
     PlanID |-> 1,
     Package |-> r.Plan,
     PackageBilling |-> r.PackageBilling,
     PackageBillingContractId |-> r.PackageBillingContractId,
     ServerStatus |-> "RUNNING",
     PowerStatus |-> "on",
     Installed |-> 1,
     PrimaryIPv4 |-> "192.0.2." \o FmtD(serverID % 256),
     PrimaryIPv6 |-> "2001:db8::" \o FmtX(serverID)]

\* The record CreateServer builds.
NewServer(serverID, r, osList, locList) ==
    [ID |-> serverID,
     Name |-> r.FQDN,
     OS |-> LookupOS(osList, r.Image, ""),
     OSID |-> r.Image,
     Location |-> LookupLocation(locList, r.Location, ""),
     LocationID |-> r.Location,
     PlanID |-> 1,
     Package |-> r.Plan,
     PackageBilling |-> r.PackageBilling,
     PackageBillingContractId |-> r.PackageBillingContractId,
     ServerStatus |-> "RUNNING",
     PowerStatus |-> "on",
     Installed |-> 1,
     PrimaryIPv4 |-> "192.0.2." \o FmtD(serverID % 256),
     PrimaryIPv6 |-> "2001:db8::" \o FmtX(serverID)]

\* Faulty variant of Rebuilt: the status is left as it was.
Rebuilt_KeepStatus(server, r, osList, locList) ==
    [server EXCEPT
        !.Name = r.FQDN,
        !.OSID = r.Image,
        !.LocationID = r.Location,
        !.PackageBilling = r.PackageBilling,
        !.PackageBillingContractId = r.PackageBillingContractId,
        !.OS = LookupOS(osList, r.Image, server.OS),
        !.Location = LookupLocation(locList, r.Location, server.Location)]

\* Faulty variant of Rebuilt: the plan of the request replaces the package.
Rebuilt_Replan(server, r, osList, locList) ==
    [server EXCEPT
        !.Name = r.FQDN,
        !.OSID = r.Image,
        !.LocationID = r.Location,
        !.Package = r.Plan,
        !.PackageBilling = r.PackageBilling,
        !.PackageBillingContractId = r.PackageBillingContractId,
        !.ServerStatus = "RUNNING",
        !.OS = LookupOS(osList, r.Image, server.OS),
        !.Location = LookupLocation(locList, r.Location, server.Location)]

\* The record BuildServer writes back.
Rebuilt(server, r, osList, locList) ==
    [server EXCEPT
        !.Name = r.FQDN,
        !.OSID = r.Image,
        !.LocationID = r.Location,
        !.PackageBilling = r.PackageBilling,
        !.PackageBillingContractId = r.PackageBillingContractId,
        !.ServerStatus = "RUNNING",
        !.OS = LookupOS(osList, r.Image, server.OS),
        !.Location = LookupLocation(locList, r.Location, server.Location)]

\* Faulty variant of Terminated: the status is left as it was.
Terminated_Noop(server) == server

\* "server.ServerStatus = "TERMINATED""
Terminated(server) == [server EXCEPT !.ServerStatus = "TERMINATED"]

\* Faulty variant of CreateServer: the addresses of the new server are stored
\* as its allocation.
CreateServer_StoresIPs(t) ==
    /\ InBody(t, "CreateServer")
    /\ LET r == cur[t].a[1]
           serverID == nextServerID
       IN /\ nextServerID' = NextID(nextServerID)
          /\ servers' = Put(servers, serverID, NewServer(serverID, r, oses, locations))
          /\ ips' = Put(ips, serverID, [IPv4 |-> <<>>, IPv6 |-> <<>>])
          /\ issued' = [issued EXCEPT !.server = Append(@, serverID)]
          /\ Return(t, [ServerID |-> serverID, Status |-> "building", Build |-> 1], Nil)
    /\ UNCHANGED <<sshKeys, bgpSessions, locations, oses, nextSSHKeyID,
                   nextBGPSessionID, opError, calls, snapshot, env>>

CreateServer(t) ==
    /\ InBody(t, "CreateServer")
    /\ LET r == cur[t].a[1]
           serverID == nextServerID
       IN /\ nextServerID' = NextID(nextServerID)
          /\ servers' = Put(servers, serverID, NewServer(serverID, r, oses, locations))
          /\ issued' = [issued EXCEPT !.server = Append(@, serverID)]
          /\ Return(t, [ServerID |-> serverID, Status |-> "building", Build |-> 1], Nil)
    /\ UNCHANGED <<sshKeys, bgpSessions, ips, locations, oses, nextSSHKeyID,
                   nextBGPSessionID, opError, calls, snapshot, env>>

GetServer(t) ==
    /\ InBody(t, "GetServer")
    /\ LET id == cur[t].a[1] IN
       IF ~Has(servers, id)
         THEN Return(t, ZeroServer, ServerNotFound(id))
         ELSE Return(t, servers[id], Nil)
    /\ UNCHANGED <<stores, counters, opError, calls, snapshot, issued, env>>

\* Faulty variant of BuildServer: an absent id gets a record built from the request.
BuildServer_Upsert(t) ==
    /\ InBody(t, "BuildServer")
    /\ LET id == cur[t].a[1]
           r == cur[t].a[2]
           was == IF Has(servers, id) THEN servers[id] ELSE [ZeroServer EXCEPT !.ID = id]
       IN /\ servers' = Put(servers, id, Rebuilt(was, r, oses, locations))
          /\ Return(t, [ServerID |-> id, Status |-> "building", Build |-> 1], Nil)
    /\ UNCHANGED <<sshKeys, bgpSessions, ips, locations, oses, counters, opError, calls,
                   snapshot, issued, env>>

BuildServer(t) ==
    /\ InBody(t, "BuildServer")
    /\ LET id == cur[t].a[1]
           r == cur[t].a[2]
       IN IF ~Has(servers, id)
            THEN /\ Return(t, ZeroServerBuild, ServerNotFound(id))
                 /\ UNCHANGED servers
            ELSE /\ servers' = Put(servers, id, Rebuilt(servers[id], r, oses, locations))
                 /\ Return(t, [ServerID |-> id, Status |-> "building", Build |-> 1], Nil)
    /\ UNCHANGED <<sshKeys, bgpSessions, ips, locations, oses, counters, opError, calls,
                   snapshot, issued, env>>

\* Faulty variant of DeletedFrom: the record is terminated only when billing
\* is cancelled.
DeletedFrom_Billing(serverMap, id, cancelBilling) ==
    IF ~Has(serverMap, id)
      THEN [servers |-> serverMap, err |-> ServerNotFound(id)]
      ELSE [servers |-> IF cancelBilling THEN Put(serverMap, id, Terminated(serverMap[id]))
                        ELSE serverMap,
            err |-> Nil]

\* The body of DeleteServer(id, cancelBilling) on the server map: the map it
\* leaves and the error it returns.
DeletedFrom(serverMap, id, cancelBilling) ==
    IF ~Has(serverMap, id)
      THEN [servers |-> serverMap, err |-> ServerNotFound(id)]
      ELSE [servers |-> Put(serverMap, id, Terminated(serverMap[id])), err |-> Nil]

DeleteServer(t) ==
    /\ InBody(t, "DeleteServer")
    /\ LET out == DeletedFrom(servers, cur[t].a[1], cur[t].a[2]) IN
       /\ servers' = out.servers
       /\ Return(t, "void", out.err)
    /\ UNCHANGED <<sshKeys, bgpSessions, ips, locations, oses, counters, opError, calls,
                   snapshot, issued, env>>

\* Faulty variant of UnlinkServer: the existence check of DeleteServer, copied.
UnlinkServer_Checked(t) ==
    /\ InBody(t, "UnlinkServer")
    /\ LET id == cur[t].a[1] IN
       IF ~Has(servers, id)
         THEN /\ Return(t, "void", ServerNotFound(id))
              /\ UNCHANGED servers
         ELSE /\ servers' = Del(servers, id)
              /\ Return(t, "void", Nil)
    /\ UNCHANGED <<sshKeys, bgpSessions, ips, locations, oses, counters, opError, calls,
                   snapshot, issued, env>>

\* Faulty variant of UnlinkServer: the sessions of the server go with it.
UnlinkServer_Cascade(t) ==
    /\ InBody(t, "UnlinkServer")
    /\ servers' = Del(servers, cur[t].a[1])
    /\ bgpSessions' = Del(bgpSessions, cur[t].a[1])
    /\ Return(t, "void", Nil)
    /\ UNCHANGED <<sshKeys, ips, locations, oses, counters, opError, calls,
                   snapshot, issued, env>>

UnlinkServer(t) ==
    /\ InBody(t, "UnlinkServer")
    /\ servers' = Del(servers, cur[t].a[1])
    /\ Return(t, "void", Nil)
    /\ UNCHANGED <<sshKeys, bgpSessions, ips, locations, oses, counters, opError, calls,
                   snapshot, issued, env>>

\* ------------------------------------------------------ SSH key operations

SSHKeyNotFound(id) == "ssh key " \o FmtD(id) \o " not found"

NewSSHKey(keyID, name, key) ==
    [ID |-> keyID, Name |-> name, Key |-> key,
     Fingerprint |-> "SHA256:fake-fingerprint-" \o FmtD(keyID)]

CreateSSHKey(t) ==
    /\ InBody(t, "CreateSSHKey")
    /\ LET keyID == nextSSHKeyID
           sshKey == NewSSHKey(keyID, cur[t].a[1], cur[t].a[2])
       IN /\ nextSSHKeyID' = NextID(nextSSHKeyID)
          /\ sshKeys' = Put(sshKeys, keyID, sshKey)
          /\ issued' = [issued EXCEPT !.sshKey = Append(@, keyID)]
          /\ Return(t, sshKey, Nil)
    /\ UNCHANGED <<servers, bgpSessions, ips, locations, oses, nextServerID,
                   nextBGPSessionID, opError, calls, snapshot, env>>

GetSSHKey(t) ==
    /\ InBody(t, "GetSSHKey")
    /\ LET id == cur[t].a[1] IN
       IF ~Has(sshKeys, id)
         THEN Return(t, ZeroSSHKey, SSHKeyNotFound(id))
         ELSE Return(t, sshKeys[id], Nil)
    /\ UNCHANGED <<stores, counters, opError, calls, snapshot, issued, env>>

\* Faulty variant of DeleteSSHKey: no existence check, as in UnlinkServer.
DeleteSSHKey_Idempotent(t) ==
    /\ InBody(t, "DeleteSSHKey")
    /\ sshKeys' = Del(sshKeys, cur[t].a[1])
    /\ Return(t, "void", Nil)
    /\ UNCHANGED <<servers, bgpSessions, ips, locations, oses, counters, opError, calls,
                   snapshot, issued, env>>

DeleteSSHKey(t) ==
    /\ InBody(t, "DeleteSSHKey")
    /\ LET id == cur[t].a[1] IN
       IF ~Has(sshKeys, id)
         THEN /\ Return(t, "void", SSHKeyNotFound(id))
              /\ UNCHANGED sshKeys
         ELSE /\ sshKeys' = Del(sshKeys, id)
              /\ Return(t, "void", Nil)
    /\ UNCHANGED <<servers, bgpSessions, ips, locations, oses, counters, opError, calls,
                   snapshot, issued, env>>

\* --------------------------------------------------- BGP session operations

\* Faulty variant of NewBGPSession: the session is IPv4 whatever the flag.
NewBGPSession_V4Only(sessionID, groupID, isIPV6) ==
    [ID |-> sessionID,
     CustomerIP |-> "198.51.100." \o FmtD(sessionID % 256),
     GroupID |-> groupID,
     ProviderIPType |-> "IPv4",
     ProviderAsn |-> ProviderAsn,
     CustomerAsn |-> CustomerAsn,
     State |-> "established",
     ConfigStatus |-> 1]

NewBGPSession(sessionID, groupID, isIPV6) ==
    [ID |-> sessionID,
     CustomerIP |-> IF isIPV6 THEN "2001:db8:bgp::" \o FmtX(sessionID)
                    ELSE "198.51.100." \o FmtD(sessionID % 256),
     GroupID |-> groupID,
     ProviderIPType |-> IF isIPV6 THEN "IPv6" ELSE "IPv4",
     ProviderAsn |-> ProviderAsn,
     CustomerAsn |-> CustomerAsn,
     State |-> "established",
     ConfigStatus |-> 1]

\* Faulty variant of AppendSession: the new session goes first.
AppendSession_Prepend(m, k, session) ==
    Put(m, k, <<session>> \o (IF Has(m, k) THEN m[k] ELSE <<>>))

\* "if f.bgpSessions[k] == nil { f.bgpSessions[k] = []*gona.BGPSession{} };
\*  f.bgpSessions[k] = append(f.bgpSessions[k], session)"
AppendSession(m, k, session) ==
    Put(m, k, Append(IF Has(m, k) THEN m[k] ELSE <<>>, session))

\* The body of CreateBGPSessions(mbPkgID, groupID, isIPV6, redundant) on the
\* session map and counter: what it leaves and the session it returns.
SessionAdded(sessionMap, sessionID, mbPkgID, groupID, isIPV6, redundant) ==
    LET session == NewBGPSession(sessionID, groupID, isIPV6) IN
    [bgpSessions |-> AppendSession(sessionMap, mbPkgID, session),
     nextBGPSessionID |-> NextID(sessionID),
     session |-> session]

CreateBGPSessions(t) ==
    /\ InBody(t, "CreateBGPSessions")
    /\ LET sessionID == nextBGPSessionID
           out == SessionAdded(bgpSessions, sessionID, cur[t].a[1], cur[t].a[2],
                               cur[t].a[3], cur[t].a[4])
       IN /\ nextBGPSessionID' = out.nextBGPSessionID
          /\ bgpSessions' = out.bgpSessions
          /\ issued' = [issued EXCEPT
                            !.bgpSession = Append(@, sessionID),
                            !.created = Append(@, [mbPkgID |-> cur[t].a[1],
                                                   session |-> out.session])]
          /\ Return(t, out.session, Nil)
    /\ UNCHANGED <<servers, sshKeys, ips, locations, oses, nextServerID, nextSSHKeyID,
                   opError, calls, snapshot, env>>

\* Faulty variant of GetBGPSessions: an id without sessions gets an entry.
GetBGPSessions_Creates(t) ==
    /\ InBody(t, "GetBGPSessions")
    /\ LET mbPkgID == cur[t].a[1] IN
       IF ~Has(bgpSessions, mbPkgID)
         THEN /\ bgpSessions' = Put(bgpSessions, mbPkgID, <<>>)
              /\ Return(t, <<>>, Nil)
         ELSE /\ UNCHANGED bgpSessions
              /\ Return(t, bgpSessions[mbPkgID], Nil)
    /\ UNCHANGED <<servers, sshKeys, ips, locations, oses, counters, opError, calls,
                   snapshot, issued, env>>

GetBGPSessions(t) ==
    /\ InBody(t, "GetBGPSessions")
    /\ LET mbPkgID == cur[t].a[1] IN
       IF ~Has(bgpSessions, mbPkgID)
         THEN Return(t, <<>>, Nil)
         ELSE Return(t, bgpSessions[mbPkgID], Nil)
    /\ UNCHANGED <<stores, counters, opError, calls, snapshot, issued, env>>

\* ------------------------------------------------- IP and metadata operations

\* Faulty variant of DefaultIPs: the last octet is the id itself.
DefaultIPs_NoWrap(mbPkgID) ==
    [IPv4 |-> << [ID |-> 1, IP |-> "192.0.2." \o FmtD(mbPkgID), Primary |-> 1,
                  Gateway |-> "192.0.2.1", Netmask |-> "255.255.255.0"] >>,
     IPv6 |-> << [ID |-> 2, IP |-> "2001:db8::" \o FmtX(mbPkgID), Primary |-> 1,
                  Gateway |-> "2001:db8::1", Netmask |-> "ffff:ffff:ffff:ffff::"] >>]

DefaultIPs(mbPkgID) ==
    [IPv4 |-> << [ID |-> 1, IP |-> "192.0.2." \o FmtD(mbPkgID % 256), Primary |-> 1,
                  Gateway |-> "192.0.2.1", Netmask |-> "255.255.255.0"] >>,
     IPv6 |-> << [ID |-> 2, IP |-> "2001:db8::" \o FmtX(mbPkgID), Primary |-> 1,
                  Gateway |-> "2001:db8::1", Netmask |-> "ffff:ffff:ffff:ffff::"] >>]

\* Faulty variant of IPsOf: the default is given without looking for the server.
IPsOf_Unchecked(ipMap, serverMap, mbPkgID) ==
    IF ~Has(ipMap, mbPkgID) THEN DefaultIPs(mbPkgID) ELSE ipMap[mbPkgID]

IPsOf(ipMap, serverMap, mbPkgID) ==
    IF ~Has(ipMap, mbPkgID)
      THEN IF Has(serverMap, mbPkgID) THEN DefaultIPs(mbPkgID) ELSE ZeroIPs
      ELSE ipMap[mbPkgID]

GetIPs(t) ==
    /\ InBody(t, "GetIPs")
    /\ Return(t, IPsOf(ips, servers, cur[t].a[1]), Nil)
    /\ UNCHANGED <<stores, counters, opError, calls, snapshot, issued, env>>

GetLocations(t) ==
    /\ InBody(t, "GetLocations")
    /\ Return(t, locations, Nil)
    /\ UNCHANGED <<stores, counters, opError, calls, snapshot, issued, env>>

GetOSs(t) ==
    /\ InBody(t, "GetOSs")
    /\ Return(t, oses, Nil)
    /\ UNCHANGED <<stores, counters, opError, calls, snapshot, issued, env>>

\* ------------------------------------------------------------ helper methods

\* What the tests seed.
SeedSSHKeys ==
    { [ID |-> FirstSSHKeyID, Name |-> "seeded-key", Key |-> "ssh-ed25519 AAA...",
       Fingerprint |-> "SHA256:seeded"] }

SeedSessions ==
    { [ID |-> 1, CustomerIP |-> "203.0.113.7", GroupID |-> 7, ProviderIPType |-> "IPv4",
       ProviderAsn |-> ProviderAsn, CustomerAsn |-> CustomerAsn, State |-> "idle",
       ConfigStatus |-> 0] }

SeedIPs ==
    { [IPv4 |-> << [ID |-> 10, IP |-> "198.18.0.10", Primary |-> 1, Gateway |-> "198.18.0.1",
                    Netmask |-> "255.255.255.0"] >>,
       IPv6 |-> <<>>] }

SeedLocations == { [ID |-> 9, Name |-> "FRA Frankfurt", IATACode |-> "FRA", Continent |-> "EU"] }

SeedOSes == { [ID |-> 9, Os |-> "Alpine 3.19", Type |-> "linux", Bits |-> "64"] }

\* A helper runs in one critical section ("f.mu.Lock(); defer
\* f.mu.Unlock()") and is not logged.
Helper(name, a) ==
    /\ fuel > 0
    /\ EnvReady
    /\ mu = Nil
    /\ name \in ScenarioHelpers(scenario)
    /\ fuel' = fuel - 1
    /\ UNCHANGED <<scenario, mockVars, providerVars>>
    /\ last' = [op |-> name, a |-> a, val |-> "void", err |-> Nil]
    /\ UNCHANGED <<counters, opError, pc, cur, ret, mu, issued>>

AddServer(server) ==
    /\ Helper("AddServer", <<server>>)
    /\ servers' = Put(servers, server.ID, server)
    /\ UNCHANGED <<sshKeys, bgpSessions, ips, locations, oses, calls, snapshot>>

AddSSHKey(key) ==
    /\ Helper("AddSSHKey", <<key>>)
    /\ sshKeys' = Put(sshKeys, key.ID, key)
    /\ UNCHANGED <<servers, bgpSessions, ips, locations, oses, calls, snapshot>>

AddBGPSession(mbPkgID, session) ==
    /\ Helper("AddBGPSession", <<mbPkgID, session>>)
    /\ bgpSessions' = AppendSession(bgpSessions, mbPkgID, session)
    /\ UNCHANGED <<servers, sshKeys, ips, locations, oses, calls, snapshot>>

SetIPs(mbPkgID, v) ==
    /\ Helper("SetIPs", <<mbPkgID, v>>)
    /\ ips' = Put(ips, mbPkgID, v)
    /\ UNCHANGED <<servers, sshKeys, bgpSessions, locations, oses, calls, snapshot>>

AddLocation(location) ==
    /\ Helper("AddLocation", <<location>>)
    /\ locations' = Append(locations, location)
    /\ UNCHANGED <<servers, sshKeys, bgpSessions, ips, oses, calls, snapshot>>

AddOS(os) ==
    /\ Helper("AddOS", <<os>>)
    /\ oses' = Append(oses, os)
    /\ UNCHANGED <<servers, sshKeys, bgpSessions, ips, locations, calls, snapshot>>

\* "calls := make([]string, len(f.calls)); copy(calls, f.calls); return calls"
GetCalls ==
    /\ Helper("GetCalls", <<>>)
    /\ snapshot' = [i \in 1..Len(calls) |-> calls[i]]
    /\ UNCHANGED <<stores, calls>>

\* "f.calls = nil"
ResetCalls ==
    /\ Helper("ResetCalls", <<>>)
    /\ calls' = <<>>
    /\ UNCHANGED <<stores, snapshot>>

\* ------------------------------------------- what a caller does with a result

\* The scenarios whose test assigns into a value a read handed it.
WritingScenarios == {"servers", "sshkeys", "ips", "metadata"}

Changed == "changed"

\* The assignment the test makes into the value v that read op returned:
\* a field of the struct, or a field of the first element of a slice.
Written(op, v) ==
    CASE op \in {"GetServer", "GetSSHKey"} -> [v EXCEPT !.Name = Changed]
      [] op = "GetIPs" -> [v EXCEPT !.IPv4[1].IP = Changed]
      [] op = "GetLocations" -> [v EXCEPT ![1].Name = Changed]
      [] op = "GetOSs" -> [v EXCEPT ![1].Os = Changed]

\* The test assigns into the value it has just got from a read (nothing
\* acted on the backend since). GetServer and GetSSHKey return a struct by
\* value; GetLocations and GetOSs return f.locations and f.oses themselves,
\* and GetIPs returns the stored gona.IPs whose IPv4 and IPv6 slices are the
\* stored ones: an element of such a slice is an element of the backend's
\* array. The allocation GetIPs synthesizes is new at every call.
WriteReturned(t) ==
    /\ fuel > 0
    /\ Quiet
    /\ scenario[1] \in WritingScenarios
    /\ t \in Callers(scenario)
    /\ ret[t].op \in {"GetServer", "GetSSHKey", "GetIPs", "GetLocations", "GetOSs"}
    /\ ret[t].err = Nil
    /\ last.op = ret[t].op
    /\ last = ret[t]
    /\ ret[t].op = "GetIPs" => ret[t].val.IPv4 # <<>>
    /\ LET op == ret[t].op
           a == ret[t].a
       IN /\ ret' = [ret EXCEPT ![t].val = Written(op, @)]
          /\ CASE op = "GetLocations" ->
                    /\ locations' = Written(op, locations)
                    /\ UNCHANGED <<servers, sshKeys, bgpSessions, ips, oses>>
               [] op = "GetOSs" ->
                    /\ oses' = Written(op, oses)
                    /\ UNCHANGED <<servers, sshKeys, bgpSessions, ips, locations>>
               [] op = "GetIPs" /\ Has(ips, a[1]) ->
                    /\ ips' = [ips EXCEPT ![a[1]] = Written(op, @)]
                    /\ UNCHANGED <<servers, sshKeys, bgpSessions, locations, oses>>
               [] OTHER -> UNCHANGED stores
          /\ last' = [op |-> "WriteReturned", a |-> <<op>>, val |-> "void", err |-> Nil]
    /\ fuel' = fuel - 1
    /\ UNCHANGED <<counters, opError, calls, mu, pc, cur, snapshot, issued, scenario,
                   mockVars, providerVars>>

\* The test assigns into the slice GetCalls has just handed it: a copy.
WriteSnapshot ==
    /\ fuel > 0
    /\ Quiet
    /\ scenario[1] \in WritingScenarios
    /\ last.op = "GetCalls"
    /\ snapshot # <<>>
    /\ snapshot' = [snapshot EXCEPT ![1] = Changed]
    /\ last' = [op |-> "WriteSnapshot", a |-> <<>>, val |-> "void", err |-> Nil]
    /\ fuel' = fuel - 1
    /\ UNCHANGED <<stores, counters, opError, calls, pc, cur, ret, mu, issued, scenario,
                   mockVars, providerVars>>

\* ---------------------------------------------------------------- MockClient

\* What a test assigns to an <Operation>Func field: a hook that answers from
\* its arguments, or one that fails.
Hooks == {"echo", "fail"}

HookError == "duplicate key name"

\* The result and error a hook returns for the arguments it is given.
HookResult(h, op, a) ==
    IF h = "echo" THEN [val |-> <<"made by hook", op, a>>, err |-> Nil]
    ELSE [val |-> ZeroResult(op), err |-> HookError]

\* Faulty variant of NotConfigured: the operation is not named.
NotConfigured_Unnamed(op) == "Func not configured"

\* fmt.Errorf("<Operation>Func not configured")
NotConfigured(op) == op \o "Func not configured"

\* The calls of a "mock" scenario: its operation, on either id.
MockArgs(target, op) ==
    IF op # target THEN {}
    ELSE IF op = "BuildServer" THEN {x \in ArgsOf(op) : x[2] = KnownRequest}
    ELSE IF op = "DeleteServer" THEN {x \in ArgsOf(op) : x[2]}
    ELSE IF op = "CreateBGPSessions" THEN {x \in ArgsOf(op) : x[3] /\ ~x[4]}
    ELSE ArgsOf(op)

\* A test assigns an <Operation>Func field (nil unsets it).
SetFunc(op, h) ==
    /\ fuel > 0
    /\ Quiet
    /\ scenario = <<"mock", op>>
    /\ mockFuncs[op] # h
    /\ mockFuncs' = [mockFuncs EXCEPT ![op] = h]
    /\ fuel' = fuel - 1
    /\ UNCHANGED <<stores, counters, opError, calls, pc, cur, ret, mu, snapshot, issued, last,
                   scenario, mockCalls, hookCalls, providerVars>>

\* A caller enters a MockClient operation: m.trackCall(...)
MockInvoke(t, op, a) ==
    /\ fuel > 0
    /\ t = "t1"
    /\ pc[t] = "idle"
    /\ mockCalls' = TrackCall(mockCalls, CallEntry(op, a))
    /\ pc' = [pc EXCEPT ![t] = "dispatch"]
    /\ cur' = [cur EXCEPT ![t] = [op |-> op, a |-> a]]
    /\ fuel' = fuel - 1
    /\ UNCHANGED <<stores, counters, opError, calls, ret, mu, snapshot, issued, last, scenario,
                   mockFuncs, hookCalls, providerVars>>

\* "if m.<Operation>Func != nil { return m.<Operation>Func(ctx, ...) }
\*  return <zero>, fmt.Errorf("<Operation>Func not configured")"
MockDispatch(t) ==
    /\ pc[t] = "dispatch"
    /\ LET op == cur[t].op
           a == cur[t].a
       IN IF mockFuncs[op] # Nil
            THEN /\ hookCalls' = Append(hookCalls, [op |-> op, a |-> a])
                 /\ Return(t, HookResult(mockFuncs[op], op, a).val,
                           HookResult(mockFuncs[op], op, a).err)
            ELSE /\ Return(t, ZeroResult(op), NotConfigured(op))
                 /\ UNCHANGED hookCalls
    /\ UNCHANGED <<stores, counters, opError, calls, snapshot, issued, fuel, scenario,
                   mockFuncs, mockCalls, providerVars>>

\* MockClient.GetCalls
MockGetCalls ==
    /\ fuel > 0
    /\ Quiet
    /\ scenario[1] = "mock"
    /\ snapshot' = [i \in 1..Len(mockCalls) |-> mockCalls[i]]
    /\ last' = [op |-> "MockGetCalls", a |-> <<>>, val |-> "void", err |-> Nil]
    /\ fuel' = fuel - 1
    /\ UNCHANGED <<stores, counters, opError, calls, pc, cur, ret, mu, issued, scenario,
                   mockVars, providerVars>>

\* MockClient.ResetCalls: "m.calls = nil"
MockResetCalls ==
    /\ fuel > 0
    /\ Quiet
    /\ scenario[1] = "mock"
    /\ mockCalls' = <<>>
    /\ last' = [op |-> "MockResetCalls", a |-> <<>>, val |-> "void", err |-> Nil]
    /\ fuel' = fuel - 1
    /\ UNCHANGED <<stores, counters, opError, calls, pc, cur, ret, mu, snapshot, issued,
                   scenario, mockFuncs, hookCalls, providerVars>>

MockInit ==
    /\ mockFuncs = [o \in Operations |-> Nil]
    /\ mockCalls = <<>>
    /\ hookCalls = <<>>

\* ------------------------------------------------------ provider configuration

CustomURL == "https://custom.netactuate.example.com/api"

\* The provider block: each attribute is unset (Nil), empty or given. decodes
\* is whether req.Config.Get can read the block into FrameworkProviderModel.
Configs ==
    [api_key : {Nil, "", "test-key"}, api_url : {Nil, "", CustomURL}, decodes : BOOLEAN]

\* NETACTUATE_API_KEY: os.Getenv gives "" when it is unset.
Environs == {"", "env-test-key"}

\* A Configure path that has not run yet.
NotRun == [state |-> "not run"]

MissingKeySummary == "Unable to create NetActuate API client"

\* An unset string attribute reads as "" (d.Get(k).(string), ValueString()).
StringOf(v) == IF v = Nil THEN "" ELSE v

\* d.Get("api_key") under the schema of NewSDKProvider: the attribute when the
\* block sets it, else DefaultFunc: schema.EnvDefaultFunc("NETACTUATE_API_KEY", nil).
SDKApiKey(cfg, envValue) == IF cfg.api_key # Nil THEN cfg.api_key ELSE envValue

\* gona.NewClient / gona.NewClientCustom: the client is what it was made from.
NewClient(apiKey) == <<"gona.NewClient", apiKey>>

NewClientCustom(apiKey, apiUrl) == <<"gona.NewClientCustom", apiKey, apiUrl>>

\* Faulty variant of providerConfigure: the key is not checked.
providerConfigure_Unchecked(cfg, envValue) ==
    [client |-> NewClient(SDKApiKey(cfg, envValue)), diags |-> <<>>]

\* providerConfigure: (client, diags)
providerConfigure(cfg, envValue) ==
    LET apiKey == SDKApiKey(cfg, envValue)
        apiUrl == StringOf(cfg.api_url)
    IN IF apiKey = ""
         THEN [client |-> Nil,
               diags |-> << [severity |-> "error", summary |-> MissingKeySummary,
                             detail |-> "Unable to find NetActuate API key. It can be set with either NETACTUATE_API_KEY environment\nvariable or 'api_key' property"] >>]
         ELSE IF apiUrl = ""
                THEN [client |-> NewClient(apiKey), diags |-> <<>>]
                ELSE [client |-> NewClientCustom(apiKey, apiUrl), diags |-> <<>>]

\* FrameworkProvider.Configure: the response it leaves
FrameworkConfigure(cfg) ==
    IF ~cfg.decodes
      THEN [diags |-> << [severity |-> "error", summary |-> "Value Conversion Error",
                          detail |-> "req.Config.Get"] >>,
            DataSourceData |-> Nil, ResourceData |-> Nil]
      ELSE LET apiKey == StringOf(cfg.api_key)
               apiUrl == StringOf(cfg.api_url)
           IN IF apiKey = ""
                THEN [diags |-> << [severity |-> "error", summary |-> MissingKeySummary,
                                    detail |-> "Unable to find NetActuate API key. It can be set with either NETACTUATE_API_KEY environment variable or 'api_key' property"] >>,
                      DataSourceData |-> Nil, ResourceData |-> Nil]
                ELSE LET client == IF apiUrl = "" THEN NewClient(apiKey)
                                   ELSE NewClientCustom(apiKey, apiUrl)
                     IN [diags |-> <<>>, DataSourceData |-> client, ResourceData |-> client]

\* Terraform configures the SDK provider.
ConfigureSDK ==
    /\ configured.sdk = NotRun
    /\ configured' = [configured EXCEPT !.sdk = providerConfigure(config, environ)]
    /\ UNCHANGED <<stores, counters, opError, calls, pc, cur, ret, mu, snapshot, issued, last,
                   fuel, scenario, mockVars, config, environ, hostname, validated>>

\* Terraform configures the framework provider.
ConfigureFramework ==
    /\ configured.framework = NotRun
    /\ configured' = [configured EXCEPT !.framework = FrameworkConfigure(config)]
    /\ UNCHANGED <<stores, counters, opError, calls, pc, cur, ret, mu, snapshot, issued, last,
                   fuel, scenario, mockVars, config, environ, hostname, validated>>

\* ----------------------------------------------------------- hostname pattern

\* One letter, one digit, and the three other characters hostnames are tried with.
HostnameChars == {"a", "1", "-", ".", "_"}

\* [a-zA-Z0-9]
Alnum(c) == c \in {"a", "1"}

\* [a-zA-Z0-9\-]
AlnumOrHyphen(c) == c \in {"a", "1", "-"}

\* ([a-zA-Z0-9]|[a-zA-Z0-9][a-zA-Z0-9\-]*[a-zA-Z0-9]) matches all of w
Label(w) ==
    \/ Len(w) = 1 /\ Alnum(w[1])
    \/ /\ Len(w) >= 2
       /\ Alnum(w[1])
       /\ Alnum(w[Len(w)])
       /\ \A i \in 2..(Len(w) - 1) : AlnumOrHyphen(w[i])

\* (label\.)*label matches all of w
RECURSIVE Labels(_)
Labels(w) ==
    \/ Label(w)
    \/ \E k \in 1..(Len(w) - 2) :
          /\ Label(SubSeq(w, 1, k))
          /\ w[k + 1] = "."
          /\ Labels(SubSeq(w, k + 2, Len(w)))

\* Faulty variant of hostnameRegex: the pattern begins with "^".
hostnameRegex_Anchored(s) == Labels(s)

\* regexp.MustCompile("(label\.)*label$").MatchString(s): the pattern has to
\* match from some position of s up to its end.
hostnameRegex(s) == \E i \in 1..Len(s) : Labels(SubSeq(s, i, Len(s)))

\* regexp.MustCompile("^(label\.)*label$").MatchString(s)
fixedRegex(s) == Labels(s)

\* No pattern was tried on a hostname.
HostnameInit ==
    /\ hostname = <<>>
    /\ validated = [current |-> NotRun, fixed |-> NotRun]

\* TestHostnameRegex: "match := regex.MatchString(tt.hostname)"
MatchHostname ==
    /\ validated.current = NotRun
    /\ validated' = [validated EXCEPT !.current = [match |-> hostnameRegex(hostname)]]
    /\ UNCHANGED <<stores, counters, opError, calls, pc, cur, ret, mu, snapshot, issued, last,
                   fuel, scenario, mockVars, config, environ, configured, hostname>>

\* TestHostnameRegexFixed: "match := fixedRegex.MatchString(tt.hostname)"
MatchHostnameFixed ==
    /\ validated.fixed = NotRun
    /\ validated' = [validated EXCEPT !.fixed = [match |-> fixedRegex(hostname)]]
    /\ UNCHANGED <<stores, counters, opError, calls, pc, cur, ret, mu, snapshot, issued, last,
                   fuel, scenario, mockVars, config, environ, configured, hostname>>

\* ------------------------------------------------------------- specification

Next ==
    \/ \E t \in Threads, op \in Operations :
            \E a \in ScenarioArgs(scenario, op) : Invoke(t, op, a)
    \/ \E t \in Threads : trackCall(t)
    \/ \E t \in Threads : CheckError(t)
    \/ \E t \in Threads : ReturnError(t)
    \/ \E t \in Threads : Lock(t)
    \/ \E op \in ScenarioInjects(scenario), e \in InjectedErrors \cup {Nil} : SetError(op, e)
    \/ \E t \in Threads : CreateServer(t)
    \/ \E t \in Threads : GetServer(t)
    \/ \E t \in Threads : BuildServer(t)
    \/ \E t \in Threads : DeleteServer(t)
    \/ \E t \in Threads : UnlinkServer(t)
    \/ \E t \in Threads : CreateSSHKey(t)
    \/ \E t \in Threads : GetSSHKey(t)
    \/ \E t \in Threads : DeleteSSHKey(t)
    \/ \E t \in Threads : CreateBGPSessions(t)
    \/ \E t \in Threads : GetBGPSessions(t)
    \/ \E t \in Threads : GetIPs(t)
    \/ \E t \in Threads : GetLocations(t)
    \/ \E t \in Threads : GetOSs(t)
    \/ \E s \in SeedServers : AddServer(s)
    \/ \E k \in SeedSSHKeys : AddSSHKey(k)
    \/ \E s \in SeedSessions : AddBGPSession(S0, s)
    \/ \E v \in SeedIPs : SetIPs(S0, v)
    \/ \E l \in SeedLocations : AddLocation(l)
    \/ \E o \in SeedOSes : AddOS(o)
    \/ GetCalls
    \/ ResetCalls
    \/ \E t \in Threads : WriteReturned(t)
    \/ WriteSnapshot
    \/ \E op \in Operations, h \in Hooks \cup {Nil} : SetFunc(op, h)
    \/ \E t \in Threads, op \in Operations :
            \E a \in (IF scenario[1] = "mock" THEN MockArgs(scenario[2], op) ELSE {}) :
                MockInvoke(t, op, a)
    \/ \E t \in Threads : MockDispatch(t)
    \/ MockGetCalls
    \/ MockResetCalls

Init ==
    /\ FakeInit
    /\ MockInit
    /\ scenario \in Scenarios
    /\ config = [api_key |-> Nil, api_url |-> Nil, decodes |-> TRUE]
    /\ environ = ""
    /\ configured = [sdk |-> NotRun, framework |-> NotRun]
    /\ HostnameInit

Spec == Init /\ [][Next]_vars

\* The step caller t can take next once it is in an operation.
Progress(t) ==
    /\ \/ trackCall(t)
       \/ CheckError(t)
       \/ ReturnError(t)
       \/ Lock(t)
       \/ CreateServer(t)
       \/ GetServer(t)
       \/ BuildServer(t)
       \/ DeleteServer(t)
       \/ UnlinkServer(t)
       \/ CreateSSHKey(t)
       \/ GetSSHKey(t)
       \/ DeleteSSHKey(t)
       \/ CreateBGPSessions(t)
       \/ GetBGPSessions(t)
       \/ GetIPs(t)
       \/ GetLocations(t)
       \/ GetOSs(t)
       \/ MockDispatch(t)
    /\ pc'[t] # pc[t]

\* Every goroutine that can run does run: the scheduler is fair to each
\* caller, and sync.Mutex hands the lock to a waiter once it is free.
LiveSpec == Spec /\ \A t \in Threads : WF_vars(Progress(t))

\* Provider configuration alone: every provider block and environment, both
\* Configure paths.
ProviderInit ==
    /\ FakeInit
    /\ MockInit
    /\ scenario = <<"provider", "-">>
    /\ config \in Configs
    /\ environ \in Environs
    /\ configured = [sdk |-> NotRun, framework |-> NotRun]
    /\ HostnameInit

ProviderNext ==
    \/ ConfigureSDK
    \/ ConfigureFramework

SpecProvider == ProviderInit /\ [][ProviderNext]_vars

\* The hostname pattern alone: every text of up to MaxHostnameLen characters,
\* both patterns.
Hostnames == UNION {[1..n -> HostnameChars] : n \in 0..MaxHostnameLen}

HostnameTestInit ==
    /\ FakeInit
    /\ MockInit
    /\ scenario = <<"hostname", "-">>
    /\ config = [api_key |-> Nil, api_url |-> Nil, decodes |-> TRUE]
    /\ environ = ""
    /\ configured = [sdk |-> NotRun, framework |-> NotRun]
    /\ hostname \in Hostnames
    /\ validated = [current |-> NotRun, fixed |-> NotRun]

HostnameNext ==
    \/ MatchHostname
    \/ MatchHostnameFixed

SpecHostname == HostnameTestInit /\ [][HostnameNext]_vars

\* ==================================================================== claims

Range(q) == {q[i] : i \in 1..Len(q)}

StrictlyIncreasing(q) == \A i, j \in 1..Len(q) : i < j => q[i] < q[j]

\* Caller t finishes an operation of the FakeClient in this step, in its body.
BodyStep(t, op) == InBody(t, op) /\ pc'[t] = "idle"

\* The last thing caller t got back is the result of FakeClient operation op.
Returned(t, op) == scenario[1] # "mock" /\ ret[t].op = op

Succeeded(t, op) == Returned(t, op) /\ ret[t].err = Nil

\* C1: every successful CreateServer returns an id strictly greater than
\* every id an earlier CreateServer returned, the first one being 1000; no
\* two CreateServer calls return the same id (for any interleaving of the
\* operations of two callers, and with records seeded by AddServer).
C1_ServerIdsStrictlyIncrease ==
    /\ StrictlyIncreasing(issued.server)
    /\ issued.server # <<>> => issued.server[1] = FirstServerID
    /\ \A t \in Threads :
          Succeeded(t, "CreateServer") =>
              /\ ret[t].val.ServerID \in Range(issued.server)
              /\ \A u \in Threads \ {t} :
                    Succeeded(u, "CreateServer") => ret[u].val.ServerID # ret[t].val.ServerID

\* Two callers have each got an id from CreateServer, in the concurrent scenario.
C1_Witness ==
    /\ scenario[1] = "concurrent"
    /\ Len(issued.server) >= 2
    /\ \A t \in Threads : Succeeded(t, "CreateServer")

\* C2: in each entity class the ids handed out are unique and strictly
\* increasing from the class's first id (1000, 100, 500; BGP session ids
\* over all server lists together), an id is never handed out again after
\* its record was removed, and the three id counters never decrease.
C2_IdsNeverReused ==
    [][/\ nextServerID' >= nextServerID
       /\ nextSSHKeyID' >= nextSSHKeyID
       /\ nextBGPSessionID' >= nextBGPSessionID
       /\ \A c \in {"server", "sshKey", "bgpSession"} :
             LET first == CASE c = "server" -> FirstServerID
                            [] c = "sshKey" -> FirstSSHKeyID
                            [] c = "bgpSession" -> FirstBGPSessionID
             IN \/ issued'[c] = issued[c]
                \/ /\ Len(issued'[c]) = Len(issued[c]) + 1
                   /\ SubSeq(issued'[c], 1, Len(issued[c])) = issued[c]
                   /\ issued[c] = <<>> => issued'[c][1] = first
                   /\ \A old \in Range(issued[c]) : old < issued'[c][Len(issued'[c])]
       /\ \A k \in DOMAIN bgpSessions' :
             \A i \in 1..Len(bgpSessions'[k]) :
                (~Has(bgpSessions, k) \/ i > Len(bgpSessions[k])) =>
                    \/ bgpSessions'[k][i] \in SeedSessions
                    \/ /\ bgpSessions'[k][i].ID \notin Range(issued.bgpSession)
                       /\ bgpSessions'[k][i].ID \in Range(issued'.bgpSession)
      ]_vars

\* A second SSH key was created after the first was deleted: the first id is
\* free again in the store, and the second key did not get it.
C2_Witness ==
    /\ calls = <<"CreateSSHKey(test-key)", "DeleteSSHKey(100)", "CreateSSHKey(test-key)">>
    /\ Quiet
    /\ issued.sshKey = <<K0, K1>>
    /\ ~Has(sshKeys, K0)
    /\ Has(sshKeys, K1)

\* The last step that acted on the backend was a successful op on server id.
LastWas(op, id) == last.op = op /\ last.err = Nil /\ last.a[1] = id

\* C3: a GetServer(id) that follows a successful DeleteServer(id, _) returns
\* the record, with ServerStatus "TERMINATED", and no error: DeleteServer
\* keeps the record.
C3_DeleteThenGetTerminated ==
    [][\A t \in Threads : \A id \in ServerIds :
          (BodyStep(t, "GetServer") /\ cur[t].a[1] = id /\ LastWas("DeleteServer", id)) =>
              /\ ret'[t].err = Nil
              /\ Has(servers, id)
              /\ ret'[t].val = servers[id]
              /\ ret'[t].val.ServerStatus = "TERMINATED"
      ]_vars

\* CreateServer, DeleteServer(1000, true), GetServer(1000): the record came back.
C3_Witness ==
    /\ calls = <<"CreateServer", "DeleteServer(1000, true)", "GetServer(1000)">>
    /\ Succeeded("t1", "GetServer")
    /\ ret["t1"].val.ID = S0
    /\ ret["t1"].val.ServerStatus = "TERMINATED"
    /\ last = ret["t1"]

\* C4: a GetServer(id) that follows UnlinkServer(id) fails with a not-found
\* error, whatever the record was before the unlink.
C4_UnlinkThenGetNotFound ==
    [][\A t \in Threads : \A id \in ServerIds :
          (BodyStep(t, "GetServer") /\ cur[t].a[1] = id /\ LastWas("UnlinkServer", id)) =>
              /\ ret'[t].err = ServerNotFound(id)
              /\ ret'[t].val = ZeroServer
      ]_vars

\* A terminated record was unlinked and then asked for.
C4_Witness ==
    /\ calls = <<"DeleteServer(1000, true)", "UnlinkServer(1000)", "GetServer(1000)">>
    /\ fuel = MaxSteps - 4
    /\ Returned("t1", "GetServer")
    /\ ret["t1"].err = "server 1000 not found"
    /\ last = ret["t1"]
    /\ ~Has(servers, S0)

\* C5: UnlinkServer never returns an error, and a second UnlinkServer on the
\* same id (like any UnlinkServer of an absent id) leaves every store and
\* every id counter unchanged.
C5_UnlinkIdempotent ==
    [][\A t \in Threads : \A id \in ServerIds :
          (BodyStep(t, "UnlinkServer") /\ cur[t].a[1] = id) =>
              /\ ret'[t].err = Nil
              /\ ~Has(servers', id)
              /\ (LastWas("UnlinkServer", id) \/ ~Has(servers, id)) =>
                    UNCHANGED <<stores, counters>>
      ]_vars

\* UnlinkServer(1001) twice on a backend that holds server 1000 as well.
C5_Witness ==
    /\ calls = <<"CreateServer", "CreateServer", "UnlinkServer(1001)", "UnlinkServer(1001)">>
    /\ Succeeded("t1", "UnlinkServer")
    /\ last = ret["t1"]
    /\ DOMAIN servers = {S0}

\* Caller t leaves the locked body of an interface operation in this step.
Completes(t) == pc[t] = "body" /\ pc'[t] = "idle"

\* What one completed operation does to the record of id: nothing, or one of
\* the writes named by its disjuncts.
Kept(id) == Has(servers, id) /\ Has(servers', id) /\ servers'[id] = servers[id]

Soft(t, id) ==
    /\ cur[t].op = "DeleteServer" /\ cur[t].a[1] = id
    /\ Has(servers, id) /\ Has(servers', id)
    /\ servers'[id].ServerStatus = "TERMINATED"

Hard(t, id) ==
    /\ cur[t].op = "UnlinkServer" /\ cur[t].a[1] = id
    /\ Has(servers, id) /\ ~Has(servers', id)

\* C6 as stated: the status of a record changes only from "RUNNING" to
\* "TERMINATED" (by DeleteServer) or the record disappears (by UnlinkServer);
\* TERMINATED is terminal. Stated for the behaviours in which no record is
\* seeded, where BuildServer already refutes it.
C6_TerminatedIsTerminal ==
    [][\A t \in Threads :
          (Completes(t) /\ scenario[1] = "rebuild") =>
              \A id \in DOMAIN servers :
                  \/ Has(servers', id) /\ servers'[id].ServerStatus = servers[id].ServerStatus
                  \/ Soft(t, id) /\ servers[id].ServerStatus = "RUNNING"
                  \/ Hard(t, id)
      ]_vars

\* C6, amended: a completed interface operation leaves a record as it is,
\* or it is DeleteServer setting the status to "TERMINATED", BuildServer
\* setting it (back) to "RUNNING", UnlinkServer removing the record, or
\* CreateServer writing a "RUNNING" record at the id it issues (over whatever
\* AddServer put there). TERMINATED is not terminal.
C6_StatusTransitions ==
    [][\A t \in Threads :
          Completes(t) =>
              \A id \in (DOMAIN servers) \cup (DOMAIN servers') :
                  \/ Kept(id)
                  \/ Soft(t, id)
                  \/ Hard(t, id)
                  \/ /\ cur[t].op = "BuildServer" /\ cur[t].a[1] = id
                     /\ Has(servers, id) /\ Has(servers', id)
                     /\ servers'[id].ServerStatus = "RUNNING"
                  \/ /\ cur[t].op = "CreateServer" /\ id = nextServerID
                     /\ Has(servers', id)
                     /\ servers'[id].ServerStatus = "RUNNING"
      ]_vars

\* A created server was terminated and then rebuilt: it is RUNNING again.
C6_Witness ==
    /\ calls = <<"CreateServer", "DeleteServer(1000, true)", "BuildServer(1000)">>
    /\ Succeeded("t1", "BuildServer")
    /\ last = ret["t1"]
    /\ servers[S0].ServerStatus = "RUNNING"

\* C7: an operation that finds its injected error set returns exactly that
\* error with a zero-value result (no other goroutine assigning the field
\* meanwhile), and from its entry to its return no store and no id counter
\* changes, the call log having grown by its one entry; with the error
\* cleared (nil) the operation goes on to its body.
C7_InjectedErrorShortCircuits ==
    [][\A t \in Threads :
          /\ (pc[t] = "idle" /\ pc'[t] = "track") =>
                UNCHANGED <<stores, counters, calls>>
          /\ (pc[t] = "track" /\ pc'[t] # "track") =>
                /\ pc'[t] = "check"
                /\ UNCHANGED <<stores, counters>>
                /\ Len(calls') = Len(calls) + 1
          /\ (pc[t] = "check" /\ pc'[t] # "check") =>
                /\ pc'[t] = IF opError[cur[t].op] # Nil THEN "fail" ELSE "lock"
                /\ ret'[t] = ret[t]
                /\ UNCHANGED <<stores, counters, calls>>
          /\ (pc[t] = "fail" /\ pc'[t] # "fail") =>
                LET op == cur[t].op IN
                /\ pc'[t] = "idle"
                /\ ret'[t] = [op |-> op, a |-> cur[t].a,
                              val |-> ZeroResult(op), err |-> opError[op]]
                /\ scenario[1] # "concurrent" => ret'[t].err \in InjectedErrors
                /\ UNCHANGED <<stores, counters, calls>>
                /\ CallEntry(op, cur[t].a) \in Range(calls)
      ]_vars

\* CreateServer failed with the injected error, the error was cleared, and
\* CreateServer then issued the first id: two log entries, one server.
C7_Witness ==
    /\ scenario = <<"inject", "CreateServer">>
    /\ calls = <<"CreateServer", "CreateServer">>
    /\ opError["CreateServer"] = Nil
    /\ Succeeded("t1", "CreateServer")
    /\ last = ret["t1"]
    /\ issued.server = <<FirstServerID>>
    /\ DOMAIN servers = {FirstServerID}

\* No caller is in trackCall in this step.
NoEntry ==
    \A t \in Threads :
        /\ ~(pc[t] = "track" /\ pc'[t] = "check")
        /\ ~(pc[t] = "idle" /\ pc'[t] = "dispatch")

\* C8: every call of an interface operation on FakeClient or MockClient
\* appends exactly its one entry to the end of that client's log when it is
\* made, whatever its outcome; nothing else appends (helper methods and
\* GetCalls leave the log alone); ResetCalls empties the log.
C8_EveryCallLoggedOnce ==
    [][/\ \A t \in Threads :
             /\ (pc[t] = "idle" /\ pc'[t] # "idle") => pc'[t] \in {"track", "dispatch"}
             /\ (pc[t] = "track" /\ pc'[t] # "track") =>
                   /\ pc'[t] = "check"
                   /\ cur'[t] = cur[t]
                   /\ calls' = Append(calls, CallEntry(cur[t].op, cur[t].a))
                   /\ mockCalls' = mockCalls
             /\ (pc[t] = "idle" /\ pc'[t] = "dispatch") =>
                   /\ mockCalls' = Append(mockCalls, CallEntry(cur'[t].op, cur'[t].a))
                   /\ calls' = calls
       /\ NoEntry =>
             /\ calls' = calls \/ (calls' = <<>> /\ last'.op = "ResetCalls")
             /\ mockCalls' = mockCalls \/ (mockCalls' = <<>> /\ last'.op = "MockResetCalls")
       /\ (NoEntry /\ last'.op = "ResetCalls" /\ fuel' < fuel) => calls' = <<>>
       /\ (NoEntry /\ last'.op = "MockResetCalls" /\ fuel' < fuel) => mockCalls' = <<>>
      ]_vars

\* A failed GetServer was logged and read back, the log was reset, and the
\* next call is the only entry.
C8_Witness ==
    /\ snapshot = <<"GetServer(1000)">>
    /\ calls = <<"GetLocations">>
    /\ Returned("t1", "GetLocations")
    /\ Quiet

\* C9: a MockClient operation whose function field is set calls it once with
\* the caller's arguments and returns its result and error as they are; one
\* whose field is unset returns a zero value and the error
\* "<Operation>Func not configured". The call is in the log before either.
C9_MockDispatch ==
    [][\A t \in Threads :
          (pc[t] = "dispatch" /\ pc'[t] = "idle") =>
              LET op == cur[t].op
                  a == cur[t].a
                  h == mockFuncs[op]
              IN /\ mockCalls # <<>>
                 /\ mockCalls[Len(mockCalls)] = CallEntry(op, a)
                 /\ mockCalls' = mockCalls
                 /\ IF h # Nil
                      THEN /\ hookCalls' = Append(hookCalls, [op |-> op, a |-> a])
                           /\ ret'[t] = [op |-> op, a |-> a, val |-> HookResult(h, op, a).val,
                                         err |-> HookResult(h, op, a).err]
                      ELSE /\ hookCalls' = hookCalls
                           /\ ret'[t] = [op |-> op, a |-> a, val |-> ZeroResult(op),
                                         err |-> op \o "Func not configured"]
      ]_vars

\* CreateSSHKey went through a failing hook, the hook was unset, and the
\* next CreateSSHKey found none.
C9_Witness ==
    /\ scenario = <<"mock", "CreateSSHKey">>
    /\ mockCalls = <<"CreateSSHKey(test-key)", "CreateSSHKey(test-key)">>
    /\ hookCalls = << [op |-> "CreateSSHKey", a |-> <<"test-key", "ssh-rsa AAA...">>] >>
    /\ ret["t1"].err = "CreateSSHKeyFunc not configured"
    /\ ret["t1"].val = ZeroSSHKey

\* The provider block gives no API key (unset or empty) and can be read.
NoKeyGiven == StringOf(config.api_key) = "" /\ config.decodes

\* C10: with no API key in the provider block and no NETACTUATE_API_KEY in
\* the environment, each Configure path yields exactly one diagnostic, an
\* error with summary "Unable to create NetActuate API client", and no
\* client: nil from providerConfigure, ResourceData and DataSourceData unset
\* by FrameworkProvider.Configure.
C10_MissingKeyOneErrorDiagnostic ==
    (NoKeyGiven /\ environ = "") =>
        /\ configured.sdk # NotRun =>
              /\ configured.sdk.client = Nil
              /\ Len(configured.sdk.diags) = 1
              /\ configured.sdk.diags[1].severity = "error"
              /\ configured.sdk.diags[1].summary = "Unable to create NetActuate API client"
        /\ configured.framework # NotRun =>
              /\ configured.framework.ResourceData = Nil
              /\ configured.framework.DataSourceData = Nil
              /\ Len(configured.framework.diags) = 1
              /\ configured.framework.diags[1].severity = "error"
              /\ configured.framework.diags[1].summary = "Unable to create NetActuate API client"

\* Both paths have run on a block with an empty api_key, nothing in the environment.
C10_Witness ==
    /\ config.api_key = ""
    /\ config.decodes
    /\ environ = ""
    /\ configured.sdk # NotRun
    /\ configured.framework # NotRun

\* The key the provider is to use: the api_key field, or NETACTUATE_API_KEY
\* when the field is empty.
KeyToUse == IF StringOf(config.api_key) # "" THEN config.api_key ELSE environ

\* The client made from the key to use and the api_url field.
ClientToMake ==
    IF StringOf(config.api_url) = "" THEN NewClient(KeyToUse)
    ELSE NewClientCustom(KeyToUse, config.api_url)

\* C11 as stated: on each Configure path, when the api_key field or, the
\* field being empty, NETACTUATE_API_KEY supplies a non-empty key, the
\* configuration has no diagnostic and a client made from that key.
\* FrameworkProvider.Configure never reads the environment.
C11_EnvironmentFallback ==
    (config.decodes /\ KeyToUse # "") =>
        /\ configured.sdk # NotRun =>
              /\ configured.sdk.diags = <<>>
              /\ configured.sdk.client = ClientToMake
        /\ configured.framework # NotRun =>
              /\ configured.framework.diags = <<>>
              /\ configured.framework.ResourceData = ClientToMake
              /\ configured.framework.DataSourceData = ClientToMake

\* Caller t takes a step of a FakeClient operation.
Steps(t) == scenario[1] # "mock" /\ pc'[t] # pc[t]

\* C12 as stated: every step in which an interface operation reads or writes
\* shared state of the FakeClient is taken with the mutex held.
C12_AllAccessUnderMutex ==
    [][\A t \in Threads : Steps(t) => HoldsMutex(t)]_vars

\* What the mutex does guard: the entity maps, reference lists, id counters
\* and call log change only in steps taken with it held (by an operation or
\* by a helper method) or when a test assigns into a slice a read handed it;
\* an operation reads its injected-error field in two
\* steps of its own, without it: the test, which returns nothing, and the
\* return, which hands back what the field holds by then.
MutexGuardsStoresNotErrors ==
    [][/\ \A t \in Threads :
             Steps(t) =>
                 \/ HoldsMutex(t)
                 \/ pc[t] = "idle" /\ pc'[t] = "track" /\ UNCHANGED <<stores, counters, calls>>
                 \/ /\ pc[t] = "check"
                    /\ pc'[t] \in {"fail", "lock"}
                    /\ ret'[t] = ret[t]
                    /\ UNCHANGED <<stores, counters, calls, opError>>
                 \/ /\ pc[t] = "fail"
                    /\ ret'[t].err = opError[cur[t].op]
                    /\ UNCHANGED <<stores, counters, calls, opError>>
       /\ (stores' # stores \/ counters' # counters \/ calls' # calls) =>
             \/ \E t \in Threads : HoldsMutex(t)
             \/ pc' = pc /\ fuel' < fuel /\ last'.op \in ScenarioHelpers(scenario)
             \/ pc' = pc /\ fuel' < fuel /\ last'.op = "WriteReturned"
      ]_vars

\* GetServer tested its error field, another goroutine cleared the field,
\* and GetServer returned a zero server with a nil error.
C12_Witness ==
    /\ scenario[1] = "concurrent"
    /\ \E t \in Threads :
          /\ Returned(t, "GetServer")
          /\ ret[t].err = Nil
          /\ ret[t].val = ZeroServer
          /\ last = ret[t]

\* In this state DeleteServer and CreateBGPSessions come out the same for
\* either value of cancelBilling and of redundant.
FlagsIgnored ==
    /\ \A id \in ServerIds :
          DeletedFrom(servers, id, TRUE) = DeletedFrom(servers, id, FALSE)
    /\ \A id \in ServerIds, v6 \in BOOLEAN :
          SessionAdded(bgpSessions, nextBGPSessionID, id, 1, v6, TRUE)
              = SessionAdded(bgpSessions, nextBGPSessionID, id, 1, v6, FALSE)

\* C13: a DeleteServer run with one value of cancelBilling, and a
\* CreateBGPSessions run with one value of redundant, leave the entity stores
\* and id counters, and return the result, that the same call with the other
\* value of the flag leaves and returns from the same state. (The call log
\* entry prints the flag.)
C13_FlagsDoNotAlterState ==
    [][/\ FlagsIgnored /\ FlagsIgnored'
       /\ \A t \in Threads :
             /\ BodyStep(t, "DeleteServer") =>
                   LET other == DeletedFrom(servers, cur[t].a[1], ~cur[t].a[2]) IN
                   /\ servers' = other.servers
                   /\ ret'[t].err = other.err
                   /\ UNCHANGED <<sshKeys, bgpSessions, ips, locations, oses, counters>>
             /\ BodyStep(t, "CreateBGPSessions") =>
                   LET other == SessionAdded(bgpSessions, nextBGPSessionID, cur[t].a[1],
                                             cur[t].a[2], cur[t].a[3], ~cur[t].a[4])
                   IN /\ bgpSessions' = other.bgpSessions
                      /\ nextBGPSessionID' = other.nextBGPSessionID
                      /\ ret'[t].val = other.session
                      /\ ret'[t].err = Nil
                      /\ UNCHANGED <<servers, sshKeys, ips, locations, oses,
                                     nextServerID, nextSSHKeyID>>
      ]_vars

\* A server was terminated by DeleteServer with cancelBilling = false.
C13_Witness ==
    /\ calls = <<"CreateServer", "DeleteServer(1000, false)">>
    /\ Succeeded("t1", "DeleteServer")
    /\ last = ret["t1"]
    /\ servers[S0].ServerStatus = "TERMINATED"

\* The addresses synthesized for the two server ids: 1000 = 256 * 3 + 232 = 0x3e8.
SynthesizedV4(id) == IF id = 1000 THEN "192.0.2.232" ELSE "192.0.2.233"

SynthesizedV6(id) == IF id = 1000 THEN "2001:db8::3e8" ELSE "2001:db8::3e9"

\* C14: GetIPs(id), past the injected error, never fails and changes nothing;
\* it returns the allocation stored for id if there is one (server or no
\* server); else, if a server record with that id exists (in any status),
\* exactly one IPv4 and one IPv6 address synthesized from id; else an empty
\* allocation.
C14_GetIPs ==
    [][\A t \in Threads : \A id \in ServerIds :
          (BodyStep(t, "GetIPs") /\ cur[t].a[1] = id) =>
              /\ ret'[t].err = Nil
              /\ UNCHANGED <<stores, counters>>
              /\ Has(ips, id) => ret'[t].val = ips[id]
              /\ (~Has(ips, id) /\ Has(servers, id)) =>
                    /\ Len(ret'[t].val.IPv4) = 1
                    /\ Len(ret'[t].val.IPv6) = 1
                    /\ ret'[t].val.IPv4[1].IP = SynthesizedV4(id)
                    /\ ret'[t].val.IPv6[1].IP = SynthesizedV6(id)
              /\ (~Has(ips, id) /\ ~Has(servers, id)) =>
                    /\ ret'[t].val.IPv4 = <<>>
                    /\ ret'[t].val.IPv6 = <<>>
      ]_vars

\* A terminated server with no stored allocation got the synthesized addresses.
C14_Witness ==
    /\ calls = <<"CreateServer", "DeleteServer(1000, true)", "GetIPs(1000)">>
    /\ Succeeded("t1", "GetIPs")
    /\ last = ret["t1"]
    /\ ~Has(ips, S0)
    /\ servers[S0].ServerStatus = "TERMINATED"
    /\ ret["t1"].val.IPv4[1].IP = "192.0.2.232"
    /\ ret["t1"].val.IPv6[1].IP = "2001:db8::3e8"

\* The names of the reference entries with the given ID (none: no such entry).
OSNames(id) == {oses[i].Os : i \in {j \in 1..Len(oses) : oses[j].ID = id}}

LocationNames(id) ==
    {locations[i].Name : i \in {j \in 1..Len(locations) : locations[j].ID = id}}

\* C15: CreateServer(r) succeeds with build result (id, "building", 1), and
\* the GetServer(id) that follows it returns a record with ID = id, Name =
\* r.FQDN, ServerStatus "RUNNING", and for OS and Location the name of the
\* reference entry whose ID is r.Image / r.Location, or "" when there is none.
C15_CreateThenGet ==
    [][\A t \in Threads :
          /\ BodyStep(t, "CreateServer") =>
                /\ ret'[t].err = Nil
                /\ ret'[t].val = [ServerID |-> nextServerID, Status |-> "building", Build |-> 1]
          /\ (BodyStep(t, "GetServer") /\ last.op = "CreateServer" /\ last.err = Nil
                /\ cur[t].a[1] = last.val.ServerID) =>
                LET r == last.a[1]
                    got == ret'[t].val
                IN /\ ret'[t].err = Nil
                   /\ got.ID = last.val.ServerID
                   /\ got.Name = r.FQDN
                   /\ got.ServerStatus = "RUNNING"
                   /\ IF OSNames(r.Image) = {} THEN got.OS = ""
                      ELSE got.OS \in OSNames(r.Image)
                   /\ IF LocationNames(r.Location) = {} THEN got.Location = ""
                      ELSE got.Location \in LocationNames(r.Location)
      ]_vars

\* The request of the test: FQDN test.example.com, Location 1, Image 1.
C15_Witness ==
    /\ calls = <<"CreateServer", "GetServer(1000)">>
    /\ last.op = "GetServer"
    /\ last.err = Nil
    /\ last.val.ID = 1000
    /\ last.val.Name = "test.example.com"
    /\ last.val.ServerStatus = "RUNNING"
    /\ last.val.Location = "AMS Amsterdam"
    /\ last.val.OS = "Ubuntu 22.04 LTS"

\* The error texts of an absent id, as the callers see them.
NoSuchServer(id) == IF id = 1000 THEN "server 1000 not found" ELSE "server 1001 not found"

NoSuchSSHKey(id) == IF id = 100 THEN "ssh key 100 not found" ELSE "ssh key 101 not found"

\* C16: GetServer, BuildServer and DeleteServer on an id with no server
\* record, and GetSSHKey and DeleteSSHKey on an id with no key record, fail
\* with an error whose text contains "not found" and a zero-value result,
\* and leave every store and id counter as it was: no record is created.
C16_AbsentIdNotFound ==
    [][\A t \in Threads :
          /\ \A op \in {"GetServer", "BuildServer", "DeleteServer"} :
                (BodyStep(t, op) /\ ~Has(servers, cur[t].a[1])) =>
                    /\ ret'[t].err = NoSuchServer(cur[t].a[1])
                    /\ ret'[t].val = ZeroResult(op)
                    /\ UNCHANGED <<stores, counters>>
          /\ \A op \in {"GetSSHKey", "DeleteSSHKey"} :
                (BodyStep(t, op) /\ ~Has(sshKeys, cur[t].a[1])) =>
                    /\ ret'[t].err = NoSuchSSHKey(cur[t].a[1])
                    /\ ret'[t].val = ZeroResult(op)
                    /\ UNCHANGED <<stores, counters>>
      ]_vars

\* BuildServer on a backend with no server: not found, and still no server.
C16_Witness ==
    /\ calls = <<"BuildServer(1000)">>
    /\ Returned("t1", "BuildServer")
    /\ last = ret["t1"]
    /\ ret["t1"].err = "server 1000 not found"
    /\ DOMAIN servers = {}

\* C17: the session store has an entry for a server id only once a session
\* was created or added for it, and GetBGPSessions on an id without entry
\* returns an empty list and no error, server or no server, and leaves the
\* session store (and every other store) as it was.
C17_NoSessionsEmptyList ==
    [][/\ \A id \in DOMAIN bgpSessions' : bgpSessions'[id] # <<>>
       /\ \A id \in (DOMAIN bgpSessions') \ (DOMAIN bgpSessions) :
             \/ \E t \in Threads : BodyStep(t, "CreateBGPSessions") /\ cur[t].a[1] = id
             \/ last'.op = "AddBGPSession" /\ last'.a[1] = id
       /\ \A t \in Threads :
             (BodyStep(t, "GetBGPSessions") /\ ~Has(bgpSessions, cur[t].a[1])) =>
                 /\ ret'[t].err = Nil
                 /\ ret'[t].val = <<>>
                 /\ UNCHANGED <<stores, counters>>
      ]_vars

\* A server exists, no session was made for it, and its list is empty.
C17_Witness ==
    /\ calls = <<"CreateServer", "GetBGPSessions(1000)">>
    /\ Succeeded("t1", "GetBGPSessions")
    /\ last = ret["t1"]
    /\ ret["t1"].val = <<>>
    /\ Has(servers, S0)
    /\ DOMAIN bgpSessions = {}

\* The sessions CreateBGPSessions returned for server id s, in call order.
CreatedFor(s) ==
    LET ForS(e) == e.mbPkgID = s
        q == SelectSeq(issued.created, ForS)
    IN [i \in 1..Len(q) |-> q[i].session]

\* A list of sessions without those a test put there with AddBGPSession.
WithoutSeeds(q) ==
    LET Made(x) == x \notin SeedSessions IN SelectSeq(q, Made)

\* C18: GetBGPSessions(s) returns, in creation order, exactly the sessions
\* that the CreateBGPSessions calls for s returned (next to those a test
\* added for s with AddBGPSession); a session created for another server id
\* is not in the list.
C18_SessionsPerServerInOrder ==
    [][\A t \in Threads :
          /\ BodyStep(t, "CreateBGPSessions") =>
                /\ ret'[t].err = Nil
                /\ issued'.created =
                      Append(issued.created,
                             [mbPkgID |-> cur[t].a[1], session |-> ret'[t].val])
          /\ \A s \in ServerIds :
                (BodyStep(t, "GetBGPSessions") /\ cur[t].a[1] = s) =>
                    /\ ret'[t].err = Nil
                    /\ WithoutSeeds(ret'[t].val) = CreatedFor(s)
                    /\ \A o \in ServerIds \ {s} :
                          Range(CreatedFor(o)) \cap Range(ret'[t].val) = {}
      ]_vars

\* Two sessions for server 1000 with one for server 1001 between them.
C18_Witness ==
    /\ Len(issued.created) = 3
    /\ issued.created[1].mbPkgID = S0
    /\ issued.created[2].mbPkgID = S1
    /\ issued.created[3].mbPkgID = S0
    /\ Succeeded("t1", "GetBGPSessions")
    /\ last = ret["t1"]
    /\ last.a = <<S0>>
    /\ Len(ret["t1"].val) = 2
    /\ ret["t1"].val[1].ID = 500
    /\ ret["t1"].val[2].ID = 502

\* The customer addresses of the first session ids, 500 onwards:
\* 500 = 256 + 244 = 0x1f4.
CustomerV4 ==
    <<"198.51.100.244", "198.51.100.245", "198.51.100.246", "198.51.100.247",
      "198.51.100.248", "198.51.100.249">>

CustomerV6 ==
    <<"2001:db8:bgp::1f4", "2001:db8:bgp::1f5", "2001:db8:bgp::1f6", "2001:db8:bgp::1f7",
      "2001:db8:bgp::1f8", "2001:db8:bgp::1f9">>

\* C19: the session CreateBGPSessions(serverID, groupID, isIPv6, _) returns
\* has the id it issues and GroupID = groupID; with isIPv6 it has
\* ProviderIPType "IPv6" and CustomerIP 2001:db8:bgp::<id in hex>, without
\* it ProviderIPType "IPv4" and CustomerIP 198.51.100.<id mod 256>.
C19_SessionFamilyFollowsFlag ==
    [][\A t \in Threads :
          BodyStep(t, "CreateBGPSessions") =>
              LET n == nextBGPSessionID - 499
                  got == ret'[t].val
              IN /\ ret'[t].err = Nil
                 /\ got.ID = nextBGPSessionID
                 /\ got.GroupID = cur[t].a[2]
                 /\ IF cur[t].a[3]
                      THEN got.ProviderIPType = "IPv6" /\ got.CustomerIP = CustomerV6[n]
                      ELSE got.ProviderIPType = "IPv4" /\ got.CustomerIP = CustomerV4[n]
      ]_vars

\* CreateBGPSessions(1000, 1, true, false) on a new backend.
C19_Witness ==
    /\ calls = <<"CreateBGPSessions(1000, 1, true, false)">>
    /\ Succeeded("t1", "CreateBGPSessions")
    /\ ret["t1"].val.ID = 500
    /\ ret["t1"].val.GroupID = 1
    /\ ret["t1"].val.ProviderIPType = "IPv6"
    /\ ret["t1"].val.CustomerIP = "2001:db8:bgp::1f4"

\* C20: CreateBGPSessions appends the session it returns to the list of its
\* server id whether or not a server record with that id exists; DeleteServer
\* and UnlinkServer leave the session store alone; GetBGPSessions returns the
\* recorded list of an id whatever became of the server.
C20_SessionsOutliveServers ==
    [][\A t \in Threads :
          /\ BodyStep(t, "CreateBGPSessions") =>
                LET s == cur[t].a[1] IN
                /\ ret'[t].err = Nil
                /\ Has(bgpSessions', s)
                /\ bgpSessions'[s] =
                      Append(IF Has(bgpSessions, s) THEN bgpSessions[s] ELSE <<>>, ret'[t].val)
                /\ servers' = servers
          /\ (BodyStep(t, "DeleteServer") \/ BodyStep(t, "UnlinkServer")) =>
                bgpSessions' = bgpSessions
          /\ (BodyStep(t, "GetBGPSessions") /\ Has(bgpSessions, cur[t].a[1])) =>
                /\ ret'[t].err = Nil
                /\ ret'[t].val = bgpSessions[cur[t].a[1]]
      ]_vars

\* A session was made for server 1000, the server was unlinked, and the
\* session is still returned.
C20_Witness ==
    /\ calls = <<"CreateServer", "CreateBGPSessions(1000, 1, false, false)",
                 "UnlinkServer(1000)", "GetBGPSessions(1000)">>
    /\ Succeeded("t1", "GetBGPSessions")
    /\ last = ret["t1"]
    /\ Len(ret["t1"].val) = 1
    /\ ret["t1"].val[1].ID = 500
    /\ ~Has(servers, S0)

\* The fingerprints of the first key ids, 100 onwards.
Fingerprints ==
    <<"SHA256:fake-fingerprint-100", "SHA256:fake-fingerprint-101",
      "SHA256:fake-fingerprint-102", "SHA256:fake-fingerprint-103",
      "SHA256:fake-fingerprint-104", "SHA256:fake-fingerprint-105">>

\* C21: CreateSSHKey(name, key) returns and stores a key with the id it
\* issues, that name and key material, and the fingerprint synthesized from
\* the id; a stored key that CreateSSHKey made stays as it is in every step
\* but a successful DeleteSSHKey of its id (or an AddSSHKey onto its id), and
\* GetSSHKey of a stored id returns the stored record: the GetSSHKey that
\* follows a CreateSSHKey returns what that returned. A successful
\* DeleteSSHKey(id) removes the record, and the GetSSHKey(id) or
\* DeleteSSHKey(id) that follows it fails with not-found and changes nothing.
C21_SSHKeyLifecycle ==
    [][/\ \A id \in Range(issued.sshKey) \cap DOMAIN sshKeys :
             \/ Has(sshKeys', id) /\ sshKeys'[id] = sshKeys[id]
             \/ \E t \in Threads : BodyStep(t, "DeleteSSHKey") /\ cur[t].a[1] = id
             \/ last'.op = "AddSSHKey" /\ last'.a[1].ID = id
       /\ \A t \in Threads :
          /\ BodyStep(t, "CreateSSHKey") =>
                LET got == ret'[t].val IN
                /\ ret'[t].err = Nil
                /\ got.ID = nextSSHKeyID
                /\ got.Name = cur[t].a[1]
                /\ got.Key = cur[t].a[2]
                /\ got.Fingerprint = Fingerprints[nextSSHKeyID - 99]
                /\ Has(sshKeys', got.ID)
                /\ sshKeys'[got.ID] = got
          /\ \A id \in SSHKeyIds :
                /\ (BodyStep(t, "GetSSHKey") /\ cur[t].a[1] = id /\ Has(sshKeys, id)) =>
                      /\ ret'[t].err = Nil
                      /\ ret'[t].val = sshKeys[id]
                      /\ (last.op = "CreateSSHKey" /\ last.err = Nil /\ last.val.ID = id) =>
                            ret'[t].val = last.val
                /\ (BodyStep(t, "DeleteSSHKey") /\ cur[t].a[1] = id /\ Has(sshKeys, id)) =>
                      /\ ret'[t].err = Nil
                      /\ ~Has(sshKeys', id)
                /\ \A op \in {"GetSSHKey", "DeleteSSHKey"} :
                      (BodyStep(t, op) /\ cur[t].a[1] = id /\ LastWas("DeleteSSHKey", id)) =>
                          /\ ret'[t].err = NoSuchSSHKey(id)
                          /\ ret'[t].val = ZeroResult(op)
                          /\ UNCHANGED <<stores, counters>>
      ]_vars

\* A key was created and deleted, and the second DeleteSSHKey failed.
C21_Witness ==
    /\ calls = <<"CreateSSHKey(test-key)", "DeleteSSHKey(100)", "DeleteSSHKey(100)">>
    /\ Returned("t1", "DeleteSSHKey")
    /\ last = ret["t1"]
    /\ ret["t1"].err = "ssh key 100 not found"
    /\ issued.sshKey = <<K0>>
    /\ DOMAIN sshKeys = {}

\* What the reads of the backend return in this state.
Reads ==
    [GetServer |-> servers,
     GetSSHKey |-> sshKeys,
     GetIPs |-> [id \in ServerIds |-> IPsOf(ips, servers, id)],
     GetLocations |-> locations,
     GetOSs |-> oses,
     GetCalls |-> calls]

\* The test assigns into a value a read returned, in this step.
WritesResult ==
    /\ pc' = pc
    /\ \/ ret' # ret
       \/ snapshot' # snapshot /\ last'.op = "WriteSnapshot"

\* C22 as stated: an assignment into the value returned by GetServer,
\* GetSSHKey, GetIPs, GetLocations, GetOSs or GetCalls (a field, or a field of
\* an element of a returned list) leaves what every read of the backend
\* returns as it was.
C22_ReadsReturnCopies ==
    [][WritesResult => Reads' = Reads]_vars

\* What does hold: the values of GetServer and GetSSHKey, the call list of
\* GetCalls and the allocation GetIPs synthesizes are the caller's own.
CopiesAreCopies ==
    [][(WritesResult /\ (ret' # ret =>
                            \/ last.op \in {"GetServer", "GetSSHKey"}
                            \/ last.op = "GetIPs" /\ ~Has(ips, last.a[1])))
          => Reads' = Reads]_vars

\* GetLocations, an assignment to the Name of the first element of its
\* result, GetLocations again: the second result has the assigned name.
C22_Witness ==
    /\ calls = <<"GetLocations", "GetLocations">>
    /\ fuel = MaxSteps - 3
    /\ Succeeded("t1", "GetLocations")
    /\ last = ret["t1"]
    /\ ret["t1"].val[1].Name = Changed
    /\ locations[1].Name = Changed

\* The operation caller t is in, or enters, in this step.
OpOf(t) == IF pc[t] = "idle" THEN cur'[t].op ELSE cur[t].op

\* C23: in every step of an interface operation (its entry, its trackCall,
\* the test of its error field, f.mu.Lock(), its body), a server operation
\* changes at most the server store and its counter, an SSH key operation at
\* most the SSH key store and its counter, CreateBGPSessions at most the
\* session store and its counter,
\* and a read no store and no counter; the call log changes only by the one
\* entry trackCall appends, and no step changes an injected-error field.
C23_NoSideEffectsOutsideClass ==
    [][\A t \in Threads :
          Steps(t) =>
              LET op == OpOf(t) IN
              /\ opError' = opError
              /\ calls' # calls =>
                    /\ pc[t] = "track"
                    /\ calls' = Append(calls, CallEntry(op, cur[t].a))
              /\ op \in {"CreateServer", "BuildServer", "DeleteServer", "UnlinkServer"} =>
                    UNCHANGED <<sshKeys, bgpSessions, ips, locations, oses,
                                nextSSHKeyID, nextBGPSessionID>>
              /\ op \in {"CreateSSHKey", "DeleteSSHKey"} =>
                    UNCHANGED <<servers, bgpSessions, ips, locations, oses,
                                nextServerID, nextBGPSessionID>>
              /\ op = "CreateBGPSessions" =>
                    UNCHANGED <<servers, sshKeys, ips, locations, oses,
                                nextServerID, nextSSHKeyID>>
              /\ op \in {"GetServer", "GetSSHKey", "GetBGPSessions", "GetIPs", "GetLocations",
                         "GetOSs"} =>
                    UNCHANGED <<stores, counters>>
      ]_vars

\* A key and a server exist; the key was deleted and the server is as it was.
C23_Witness ==
    /\ calls = <<"CreateSSHKey(test-key)", "CreateServer", "DeleteSSHKey(100)">>
    /\ Succeeded("t1", "DeleteSSHKey")
    /\ last = ret["t1"]
    /\ DOMAIN sshKeys = {}
    /\ DOMAIN servers = {S0}
    /\ servers[S0].ServerStatus = "RUNNING"
    /\ nextServerID = S1
    /\ nextSSHKeyID = K1

\* Dot-separated labels, each of letters, digits and hyphens, beginning and
\* ending with a letter or digit.
WellFormed(h) ==
    /\ h # <<>>
    /\ \A i \in 1..Len(h) : h[i] \in {"a", "1", "-", "."}
    /\ Alnum(h[1])
    /\ Alnum(h[Len(h)])
    /\ \A i \in 2..(Len(h) - 1) : h[i] = "." => Alnum(h[i - 1]) /\ Alnum(h[i + 1])

\* The shapes of "-server", ".example", "example..com" and "example_com".
InvalidAccepted ==
    {<<"-", "a">>, <<".", "a">>, <<"a", ".", ".", "a">>, <<"a", "_", "a">>}

FixedMatchesWellFormed ==
    validated.fixed # NotRun => (validated.fixed.match = WellFormed(hostname))

C26_BuildServerOverwritesInPlace ==
    [][\A t \in Threads :
          (BodyStep(t, "BuildServer") /\ Has(servers, cur[t].a[1])) =>
             LET id == cur[t].a[1]
                 r == cur[t].a[2]
                 old == servers[id]
             IN /\ DOMAIN servers' = DOMAIN servers
                /\ servers'[id].Name = r.FQDN
                /\ servers'[id].OSID = r.Image
                /\ servers'[id].LocationID = r.Location
                /\ servers'[id].PackageBilling = r.PackageBilling
                /\ servers'[id].PackageBillingContractId = r.PackageBillingContractId
                /\ servers'[id].ServerStatus = "RUNNING"
                /\ servers'[id].ID = old.ID
                /\ servers'[id].Package = old.Package
                /\ servers'[id].PlanID = old.PlanID
                /\ servers'[id].PowerStatus = old.PowerStatus
                /\ servers'[id].Installed = old.Installed
                /\ servers'[id].PrimaryIPv4 = old.PrimaryIPv4
                /\ servers'[id].PrimaryIPv6 = old.PrimaryIPv6
                /\ \A k \in DOMAIN servers : k # id => servers'[k] = servers[k]
                /\ ret'[t].err = Nil
                /\ ret'[t].val = [ServerID |-> id, Status |-> "building", Build |-> 1]
     ]_vars

\* A record created from one request has just been rebuilt from the other
\* one while a second record is stored.
C26_Witness ==
    /\ ret["t1"].op = "BuildServer"
    /\ ret["t1"].err = Nil
    /\ last = ret["t1"]
    /\ ret["t1"].a = <<S0, UnknownRequest>>
    /\ Has(servers, S0) /\ Has(servers, S1)
    /\ servers[S0].Name = UnknownRequest.FQDN
    /\ servers[S0].Package = KnownRequest.Plan
    /\ servers[S0].ServerStatus = "RUNNING"

\* Callers t and u are both past trackCall and short of their return, and the
\* entry of t is the earlier of the two in the call log.
LoggedBefore(t, u) ==
    /\ t # u
    /\ pc[t] \in {"check", "lock", "body"}
    /\ pc[u] \in {"check", "lock", "body"}
    /\ Len(calls) >= 2
    /\ CallEntry(cur[t].op, cur[t].a) # CallEntry(cur[u].op, cur[u].a)
    /\ calls[Len(calls) - 1] = CallEntry(cur[t].op, cur[t].a)
    /\ calls[Len(calls)] = CallEntry(cur[u].op, cur[u].a)

\* The operations whose body writes a store.
StoreWriters ==
    {"CreateServer", "BuildServer", "DeleteServer", "UnlinkServer", "CreateSSHKey",
     "DeleteSSHKey", "CreateBGPSessions"}

\* C27: under concurrent callers the order of the entries in the call log is
\* the order in which the operations take effect on the stores: an operation
\* logged after another one, which is at f.mu.Lock() and has yet to act, does
\* not run its body first.
C27_LogOrderIsEffectOrder ==
    [][\A t, u \in Threads :
          (/\ LoggedBefore(t, u)
           /\ pc[t] = "lock"
           /\ cur[t].op \in StoreWriters
           /\ cur[u].op \in StoreWriters) => ~Completes(u)
     ]_vars

\* The log reads CreateServer, DeleteServer(1000, true); the DeleteServer ran
\* first and found no record, and the record created after it is running.
C27_Witness ==
    /\ scenario[1] = "concurrent"
    /\ Quiet
    /\ calls = <<CallEntry("CreateServer", <<KnownRequest>>),
                 CallEntry("DeleteServer", <<S0, TRUE>>)>>
    /\ \E t, u \in Threads :
          /\ t # u
          /\ ret[t].op = "CreateServer" /\ ret[t].err = Nil /\ ret[t].val.ServerID = S0
          /\ ret[u].op = "DeleteServer" /\ ret[u].err = ServerNotFound(S0)
    /\ Has(servers, S0) /\ servers[S0].ServerStatus = "RUNNING"

\* C28: CreateServer never overwrites a server record, records seeded with
\* AddServer included: the id it chooses is not a key of the server store at
\* the moment of creation, and the number of records grows by exactly one.
C28_CreateServerNeverOverwrites ==
    [][\A t \in Threads :
          (BodyStep(t, "CreateServer") /\ ret'[t].err = Nil) =>
             /\ ~Has(servers, ret'[t].val.ServerID)
             /\ Cardinality(DOMAIN servers') = Cardinality(DOMAIN servers) + 1
     ]_vars

\* A GetServer read the record a test had seeded under the first id; the
\* CreateServer that followed was given that id, and its record is the only
\* one stored.
C28_Witness ==
    \E t, u \in Threads :
       /\ ret[u].op = "GetServer" /\ ret[u].err = Nil
       /\ ret[u].val \in SeedServers
       /\ ret[t].op = "CreateServer" /\ ret[t].err = Nil
       /\ ret[t].val.ServerID = ret[u].val.ID
       /\ last = ret[t]
       /\ DOMAIN servers = {ret[t].val.ServerID}
       /\ servers[ret[t].val.ServerID].Name = ret[t].a[1].FQDN

\* C29: with the reference lists as NewFakeClient made them, after any
\* sequence of CreateServer and BuildServer every stored record agrees with
\* its ids: its OS is the name of the reference OS whose ID is its OSID, or
\* empty if there is none, and its Location is the name of the reference
\* location whose ID is its LocationID, or empty if there is none.
C29_NamesFollowIds ==
    (scenario[1] = "rebuild" /\ oses = DefaultOSes /\ locations = DefaultLocations) =>
       \A id \in DOMAIN servers :
          /\ servers[id].OS = LookupOS(oses, servers[id].OSID, "")
          /\ servers[id].Location = LookupLocation(locations, servers[id].LocationID, "")

\* A record created with a known image and location has just been rebuilt
\* with unknown ones: it carries the new ids and the names of the old ones.
C29_Witness ==
    /\ scenario[1] = "rebuild" /\ oses = DefaultOSes /\ locations = DefaultLocations
    /\ ret["t1"].op = "BuildServer" /\ ret["t1"].err = Nil /\ last = ret["t1"]
    /\ ret["t1"].a = <<S0, UnknownRequest>>
    /\ servers[S0].OSID = UnknownRequest.Image
    /\ servers[S0].OS = DefaultOSes[1].Os
    /\ servers[S0].LocationID = UnknownRequest.Location
    /\ servers[S0].Location = DefaultLocations[1].Name

\* The record stored under id is one CreateServer made (rebuilt or terminated
\* since, perhaps): it carries what only CreateServer sets, which a record
\* seeded with AddServer does not.
MadeByCreateServer(id) ==
    /\ \E i \in 1..Len(issued.server) : issued.server[i] = id
    /\ Has(servers, id)
    /\ servers[id].PlanID = 1
    /\ servers[id].PowerStatus = "on"
    /\ servers[id].Installed = 1

\* C30: for a server CreateServer made and SetIPs gave no allocation, the
\* allocation GetIPs(id) returns agrees with the record: its one IPv4 address
\* is the record's PrimaryIPv4, 192.0.2.<id mod 256>, its one IPv6 address is
\* the record's PrimaryIPv6, and both are marked primary; also after
\* BuildServer and DeleteServer on that id.
C30_DefaultIPsMatchRecord ==
    [][\A t \in Threads :
          (/\ BodyStep(t, "GetIPs")
           /\ MadeByCreateServer(cur[t].a[1])
           /\ ~Has(ips, cur[t].a[1])) =>
             LET id == cur[t].a[1]
                 got == ret'[t].val
             IN /\ ret'[t].err = Nil
                /\ Len(got.IPv4) = 1
                /\ got.IPv4[1].IP = servers[id].PrimaryIPv4
                /\ got.IPv4[1].IP = "192.0.2." \o FmtD(id % 256)
                /\ got.IPv4[1].Primary = 1
                /\ Len(got.IPv6) = 1
                /\ got.IPv6[1].IP = servers[id].PrimaryIPv6
                /\ got.IPv6[1].Primary = 1
     ]_vars

\* GetIPs has just answered for a server that was created, rebuilt and then
\* terminated, with no allocation stored for it.
C30_Witness ==
    /\ ret["t1"].op = "GetIPs" /\ ret["t1"].a = <<S0>> /\ last = ret["t1"]
    /\ MadeByCreateServer(S0)
    /\ ~Has(ips, S0)
    /\ servers[S0].Name = UnknownRequest.FQDN
    /\ servers[S0].ServerStatus = "TERMINATED"
    /\ ret["t1"].val.IPv4[1].IP = servers[S0].PrimaryIPv4
    /\ ret["t1"].val.IPv6[1].IP = servers[S0].PrimaryIPv6

====
